---------------------------- MODULE Spec2Model ----------------------------
(***************************************************************************)
(* Model of the deterministic file-hierarchy generator and verifier        *)
(* (src/src/generate.ts) and of the seeded random engine it uses.          *)
(*                                                                         *)
(* Numbers.  A JavaScript number that holds an integer v is the triple     *)
(* <<t, m, l>> with v = t * 2^32 + m * 2^16 + l, 0 <= m, l < 2^16 and t    *)
(* any integer (t = -1 for a negative int32, t = 0 for a uint32).  The low *)
(* 32 bits <<m, l>> are what ToInt32 / ToUint32 keep, so every bitwise     *)
(* operator works on them; t carries the sign and the magnitude, which is  *)
(* what the double-precision rounding of "+" depends on.                   *)
(***************************************************************************)
EXTENDS Integers, Sequences, FiniteSets, TLC

VARIABLES
  curSeed,   \* the seed both engines and the filling engine were constructed with
  engA,      \* state register of engine A
  engB,      \* state register of engine B, constructed independently of A
  baseA,     \* draws engine A made inside a large fillBuffer, before histA
  baseB,     \* the same for engine B
  histA,     \* the values engine A's nextUint32() calls returned, in order
  histB,     \* the same for engine B
  refA,      \* register of the 32-bit reference algorithm run beside engine A
  refHistA,  \* the values the reference algorithm produced beside histA
  engF,      \* state register of engine F, the one that fills buffers
  bufF,      \* the bytes engine F's fillBuffer calls wrote, one entry per call
  lenF,      \* the buffer lengths of those calls
  wSize,     \* size argument of the two writeRandomFile calls X and Y
  chunkX,    \* chunk size call X ran with (0: not run yet)
  chunkY,    \* chunk size call Y ran with (0: not run yet)
  fileX,     \* the bytes call X wrote to its file
  fileY,     \* the bytes call Y wrote to its file
  fs,        \* the tree at baseDir: its kind, directories, data files, other files
  snap,      \* the tree as the cache archive holds it (NoSnap: no archive)
  last,      \* the operation that returned or threw last, with its outcome
  pre,       \* the tree as it was when that operation was called
  treeIs,    \* what the operations so far made of the tree
  snapIs,    \* what the tree was when the archive was saved
  older,     \* the outcomes of the operations before that one, latest first
  keep,      \* how many of those outcomes are remembered
  upTo,      \* the largest sizeGb the operations are called with
  walkGb,    \* the sizeGb of the hierarchy whose seeds are being derived
  walk,      \* number of hierarchy paths whose seed has been derived so far
  seen,      \* the seeds derived for those paths
  genGb,     \* the sizeGb of the generateFileHierarchy call followed step by step
  pc,        \* where that call is
  fileNo,    \* the position of the file it is at (filesCreated)
  wrote,     \* bytesWritten of the writeRandomFile call in progress
  fds,       \* the file descriptors open in the process
  thrown,    \* whether the try block of writeRandomFile was left by an exception
  made,      \* how many files openSync has created, in traversal order
  full,      \* how many files have had their last chunk written
  errors,    \* how many fs calls of the generate call have thrown
  todo,      \* the files no worker has taken yet
  work,      \* per worker: its file, its engine, bytesWritten, whether its fd is open
  disk,      \* per file: whether it exists and the bytes it holds
  sizeInput, \* the size-gb input of the action, as its characters
  useTmpfs,  \* whether the use-tmpfs input is 'true'
  RUNNER_TEMP,        \* process.env['RUNNER_TEMP']
  firstTemp,          \* the value RUNNER_TEMP had when run() was called
  originalRunnerTemp, \* run()'s local of that name
  runPc,     \* where run() is
  runGb,     \* run()'s sizeGb
  attempt,   \* the loop counter of the retry helper in progress
  lastError, \* the lastError of the retry helper in progress
  calls,     \* the calls run() has made so far, with how each ended
  failedWith, \* the message passed to core.setFailed, "" when it was not called
  raceGb,    \* the sizeGb of the verifyFileHierarchy call that runs beside a delete
  vPc,       \* where that call is
  vAt,       \* the position of the file it is at
  vResult,   \* what it returned, "" before
  gone       \* how many files the delete running beside it has removed

engineVars == <<curSeed, engA, engB, baseA, baseB, histA, histB, refA, refHistA,
                engF, bufF, lenF>>
chunkVars == <<wSize, chunkX, chunkY, fileX, fileY>>
fsVars == <<fs, snap, last, pre, treeIs, snapIs, older, keep, upTo>>
seedVars == <<walkGb, walk, seen>>
handleVars == <<genGb, pc, fileNo, wrote, fds, thrown, made, full, errors>>
workVars == <<todo, work, disk>>
runVars == <<sizeInput, useTmpfs, RUNNER_TEMP, firstTemp, originalRunnerTemp, runPc, runGb,
             attempt, lastError, calls, failedWith>>
raceVars == <<raceGb, vPc, vAt, vResult, gone>>
vars == <<engineVars, chunkVars, fsVars, seedVars, handleVars, workVars, runVars, raceVars>>

W16 == 256 * 256

RECURSIVE Pow2(_)
Pow2(n) == IF n = 0 THEN 1 ELSE 2 * Pow2(n - 1)

RECURSIVE BitLen(_)
BitLen(n) == IF n = 0 THEN 0 ELSE 1 + BitLen(n \div 2)

RECURSIVE XorBits(_, _)
XorBits(a, b) ==
  IF a = 0 THEN b
  ELSE IF b = 0 THEN a
  ELSE ((a + b) % 2) + 2 * XorBits(a \div 2, b \div 2)

RECURSIVE OrBits(_, _)
OrBits(a, b) ==
  IF a = 0 THEN b
  ELSE IF b = 0 THEN a
  ELSE (IF a % 2 = 1 \/ b % 2 = 1 THEN 1 ELSE 0) + 2 * OrBits(a \div 2, b \div 2)

\* Bitwise operations on 16-bit values, a hexadecimal digit at a time.
Xor4 == [a \in 0..15 |-> [b \in 0..15 |-> XorBits(a, b)]]
Or4 == [a \in 0..15 |-> [b \in 0..15 |-> OrBits(a, b)]]

Xor16(a, b) ==
  Xor4[a % 16][b % 16] + 16 * Xor4[(a \div 16) % 16][(b \div 16) % 16]
    + 256 * Xor4[(a \div 256) % 16][(b \div 256) % 16]
    + 4096 * Xor4[a \div 4096][b \div 4096]

Or16(a, b) ==
  Or4[a % 16][b % 16] + 16 * Or4[(a \div 16) % 16][(b \div 16) % 16]
    + 256 * Or4[(a \div 256) % 16][(b \div 256) % 16]
    + 4096 * Or4[a \div 4096][b \div 4096]

\* The sign component of the int32 / uint32 reading of the low 32 bits.
ToInt32(x) == <<IF x[2] >= 32768 THEN -1 ELSE 0, x[2], x[3]>>
ToUint32(x) == <<0, x[2], x[3]>>

\* A small non-negative integer (an index, a length) as a number.
Num(n) == <<0, n \div W16, n % W16>>

\* x ^ y and x | y: both operands through ToInt32, an int32 result.
BitXor(x, y) == ToInt32(<<0, Xor16(x[2], y[2]), Xor16(x[3], y[3])>>)
BitOr(x, y) == ToInt32(<<0, Or16(x[2], y[2]), Or16(x[3], y[3])>>)

\* x >>> n (0 < n < 16 is all the source uses): a uint32 result.
ShrU(x, n) ==
  <<0, x[2] \div Pow2(n), (x[3] \div Pow2(n)) + (x[2] % Pow2(n)) * Pow2(16 - n)>>

\* x >> n for n in {0, 8, 16, 24}: the sign bit fills from the left.
ShrS(x, n) ==
  LET neg == x[2] >= 32768
      fill == IF neg THEN W16 - 1 ELSE 0
  IN  CASE n = 0  -> ToInt32(x)
        [] n = 8  -> ToInt32(<<0, (x[2] \div 256) + (fill % 256) * 256,
                               (x[3] \div 256) + (x[2] % 256) * 256>>)
        [] n = 16 -> ToInt32(<<0, fill, x[2]>>)
        [] n = 24 -> ToInt32(<<0, fill, (x[2] \div 256) + (fill % 256) * 256>>)

\* x << n for n in {8, 16, 24}: an int32 result, the bits shifted out are lost.
Shl(x, n) ==
  CASE n = 8  -> ToInt32(<<0, ((x[2] % 256) * 256) + (x[3] \div 256), (x[3] % 256) * 256>>)
    [] n = 16 -> ToInt32(<<0, x[3], 0>>)
    [] n = 24 -> ToInt32(<<0, (x[3] % 256) * 256, 0>>)

\* x & 0xff, as a plain byte.
LowByte(x) == x[3] % 256

\* The exact sum of two numbers.
Plus(x, y) ==
  LET l == x[3] + y[3]
      m == x[2] + y[2] + (l \div W16)
  IN  <<x[1] + y[1] + (m \div W16), m % W16, l % W16>>

\* The 32-bit product of two 16-bit values, as <<high half, low half>>.
Mul16(a, b) ==
  LET p0 == (a % 256) * b
      p1 == (a \div 256) * b
      s  == p0 + (p1 % 256) * 256
  IN  <<((s \div W16) + (p1 \div 256)) % W16, s % W16>>

\* Math.imul(x, y): the low 32 bits of the product, as an int32.
Imul(x, y) ==
  LET ll == Mul16(x[3], y[3])
      c1 == Mul16(x[2], y[3])[2]
      c2 == Mul16(x[3], y[2])[2]
  IN  ToInt32(<<0, (ll[1] + c1 + c2) % W16, ll[2]>>)

\* The value a double holds for the exact integer x >= 0: exact below 2^53
\* (t < 2^21), otherwise rounded to the nearest multiple of the binade's
\* quantum q, ties to the even multiple.
RoundDouble(x) ==
  IF x[1] < 2097152 THEN x
  ELSE LET q    == Pow2(BitLen(x[1]) - 21)
           r    == x[3] % q
           down == <<x[1], x[2], x[3] - r>>
           up   == Plus(down, Num(q))
       IN  IF 2 * r < q THEN down
           ELSE IF 2 * r > q THEN up
           ELSE IF (x[3] \div q) % 2 = 0 THEN down ELSE up


(***************************************************************************)
(* Seeded random engine: class SeededRandom.                               *)
(***************************************************************************)
\* 0x6d2b79f5, the increment of nextUint32.
INC == <<0, 27947, 31221>>

\* constructor(seed): the state register is the seed as passed.
SeededRandom(seed) == seed

\* A register fed by a counter that all instances share.
StateAddShared(state) ==
  RoundDouble(Plus(Plus(state, INC), Num(Len(histA) + Len(histB))))

\* let t = (this.state += 0x6d2b79f5): a double addition, not reduced.
StateAdd(state) == RoundDouble(Plus(state, INC))

\* The three mixing lines of nextUint32 applied to t.
Mix(t0) ==
  LET t1 == Imul(BitXor(t0, ShrU(t0, 15)), BitOr(t0, Num(1)))
      t2 == BitXor(t1, Plus(t1, Imul(BitXor(t1, ShrU(t1, 7)), BitOr(t1, Num(61)))))
  IN  ToUint32(BitXor(t2, ShrU(t2, 14)))

\* nextUint32(): the new state and the returned value.
nextUint32(state) ==
  LET s == StateAdd(state)
  IN  [state |-> s, value |-> Mix(s)]

\* The four bytes in big-endian order.
writeUInt32BE(value) ==
  <<value[2] \div 256, value[2] % 256, value[3] \div 256, value[3] % 256>>

\* buffer.writeUInt32LE(value, offset): the four bytes written.
writeUInt32LE(value) ==
  <<value[3] % 256, value[3] \div 256, value[2] % 256, value[2] \div 256>>

\* The first loop of fillBuffer: i from i to uint32Count - 1.
RECURSIVE FillWords(_, _, _, _)
FillWords(state, buffer, i, uint32Count) ==
  IF i >= uint32Count THEN [state |-> state, buffer |-> buffer]
  ELSE LET d == nextUint32(state)
       IN  FillWords(d.state, buffer \o writeUInt32LE(d.value), i + 1, uint32Count)

\* A fillBuffer whose draw for the remaining bytes leaves the register where
\* the whole words left it.
fillBufferRewinding(state, length) ==
  LET uint32Count == length \div 4
      w           == FillWords(state, <<>>, 0, uint32Count)
      remaining   == length % 4
  IN  IF remaining > 0
      THEN LET d == nextUint32(w.state)
           IN  [state  |-> w.state,
                buffer |-> w.buffer \o [i \in 1..remaining |->
                                          LowByte(ShrS(d.value, (i - 1) * 8))]]
      ELSE w

\* fillBuffer(buffer) on a buffer of the given length: the new state and the
\* bytes the buffer holds afterwards.
fillBuffer(state, length) ==
  LET uint32Count == length \div 4
      w           == FillWords(state, <<>>, 0, uint32Count)
      remaining   == length % 4
  IN  IF remaining > 0
      THEN LET d == nextUint32(w.state)
           IN  [state  |-> d.state,
                buffer |-> w.buffer \o [i \in 1..remaining |->
                                          LowByte(ShrS(d.value, (i - 1) * 8))]]
      ELSE w


\* getFileSeed(l1, l2, l3, fileNum): every "^" and "<<" yields an int32.
MASTER_SEED == <<0, 57005, 48879>>

\* The seed without the file number.
getFileSeedPerLeaf(l1, l2, l3, fileNum) ==
  BitXor(BitXor(BitXor(MASTER_SEED, Shl(Num(l1), 24)), Shl(Num(l2), 16)), Shl(Num(l3), 8))

\* The seed with l1 shifted by 8 instead of 24.
getFileSeedNarrow(l1, l2, l3, fileNum) ==
  BitXor(BitXor(BitXor(BitXor(MASTER_SEED, Shl(Num(l1), 8)), Shl(Num(l2), 16)),
                Shl(Num(l3), 8)), Num(fileNum))

\* The seed with the indices combined by | instead of ^.
getFileSeedOr(l1, l2, l3, fileNum) ==
  BitOr(BitOr(BitOr(BitOr(MASTER_SEED, Shl(Num(l1), 24)), Shl(Num(l2), 16)),
              Shl(Num(l3), 8)), Num(fileNum))

\* A seed whose l1 field starts four bits lower, inside the byte of l2.
getFileSeedSpilling(l1, l2, l3, fileNum) ==
  BitXor(BitXor(BitXor(BitXor(MASTER_SEED, Shl(Num(l1 * 16), 16)), Shl(Num(l2), 16)),
                Shl(Num(l3), 8)), Num(fileNum))

getFileSeed(l1, l2, l3, fileNum) ==
  BitXor(BitXor(BitXor(BitXor(MASTER_SEED, Shl(Num(l1), 24)), Shl(Num(l2), 16)),
                Shl(Num(l3), 8)), Num(fileNum))

(***************************************************************************)
(* The engine on its own: two engines A and B constructed independently    *)
(* with one seed and drawing in any interleaving, a third engine F filling *)
(* buffers, and the 32-bit reference algorithm run beside engine A.        *)
(***************************************************************************)
MaxDraws == 3
MaxLen == 9
SeedIdx == 0
\* Words of the large buffer an engine may fill before its first draw; the
\* register stays below 2^53 for every seed below 2^32, so the additions up
\* to the last one are exact and add up to one exact addition.
LargeWords == 4917756

\* The exact product of x = <<0, m, l>> with m, l < 2^15 and an integer
\* 0 <= k < 2^31.
Times(x, k) ==
  LET kh == k \div W16
      kl == k % W16
      ll == x[3] * kl
      ml == x[2] * kl
      lh == x[3] * kh
      hh == x[2] * kh
  IN  Plus(Plus(Num(ll), <<ml \div W16, ml % W16, 0>>),
           Plus(<<lh \div W16, lh % W16, 0>>, <<hh, 0, 0>>))

\* The register after k draws that each added INC exactly.
Advance(state, k) == RoundDouble(Plus(state, Times(INC, k)))

Seeds ==
  {Num(0), Num(1), <<0, W16 - 1, W16 - 1>>, MASTER_SEED}
    \cup {getFileSeed(a, b, c, d) : a \in 0..SeedIdx, b \in 0..SeedIdx,
                                     c \in 0..SeedIdx, d \in 0..SeedIdx}

\* The reference algorithm: a 32-bit register, every sum and product reduced.
RefAdd(x, y) == ToUint32(Plus(ToUint32(x), ToUint32(y)))
RefMul(x, y) == ToUint32(Imul(x, y))
RefXor(x, y) == <<0, Xor16(x[2], y[2]), Xor16(x[3], y[3])>>
RefOr(x, y)  == <<0, Or16(x[2], y[2]), Or16(x[3], y[3])>>
RefNext(r) ==
  LET s  == RefAdd(r, INC)
      t1 == RefMul(RefXor(s, ShrU(s, 15)), RefOr(s, Num(1)))
      t2 == RefXor(t1, RefAdd(t1, RefMul(RefXor(t1, ShrU(t1, 7)), RefOr(t1, Num(61)))))
  IN  [state |-> s, value |-> RefXor(t2, ShrU(t2, 14))]

EngineInit ==
  /\ curSeed \in Seeds
  /\ engA = SeededRandom(curSeed)
  /\ engB = SeededRandom(curSeed)
  /\ engF = SeededRandom(curSeed)
  /\ baseA = 0 /\ baseB = 0
  /\ histA = <<>> /\ histB = <<>>
  /\ refA = ToUint32(curSeed) /\ refHistA = <<>>
  /\ bufF = <<>> /\ lenF = <<>>

\* engine A: nextUint32()
DrawA ==
  /\ Len(histA) < MaxDraws
  /\ LET d == nextUint32(engA)
         r == RefNext(refA)
     IN  /\ engA' = d.state
         /\ histA' = Append(histA, d.value)
         /\ refA' = r.state
         /\ refHistA' = Append(refHistA, r.value)
  /\ UNCHANGED <<curSeed, engB, baseA, baseB, histB, engF, bufF, lenF>>
  /\ UNCHANGED <<chunkVars, fsVars, seedVars, handleVars, workVars, runVars, raceVars>>

\* engine B: nextUint32()
DrawB ==
  /\ Len(histB) < MaxDraws
  /\ LET d == nextUint32(engB)
     IN  /\ engB' = d.state
         /\ histB' = Append(histB, d.value)
  /\ UNCHANGED <<curSeed, engA, baseA, baseB, histA, refA, refHistA, engF, bufF, lenF>>
  /\ UNCHANGED <<chunkVars, fsVars, seedVars, handleVars, workVars, runVars, raceVars>>

\* engine A, fresh: fillBuffer on a buffer of 4 * LargeWords bytes whose
\* content is not looked at.
FillLargeA ==
  /\ baseA = 0 /\ histA = <<>>
  /\ engA' = Advance(engA, LargeWords)
  /\ refA' = RefAdd(refA, Times(INC, LargeWords))
  /\ baseA' = LargeWords
  /\ UNCHANGED <<curSeed, engB, baseB, histA, histB, refHistA, engF, bufF, lenF>>
  /\ UNCHANGED <<chunkVars, fsVars, seedVars, handleVars, workVars, runVars, raceVars>>

\* engine B, fresh: the same large fillBuffer.
FillLargeB ==
  /\ baseB = 0 /\ histB = <<>>
  /\ engB' = Advance(engB, LargeWords)
  /\ baseB' = LargeWords
  /\ UNCHANGED <<curSeed, engA, baseA, histA, histB, refA, refHistA, engF, bufF, lenF>>
  /\ UNCHANGED <<chunkVars, fsVars, seedVars, handleVars, workVars, runVars, raceVars>>

\* engine F, fresh: fillBuffer(buffer) with buffer.length = n
FillF ==
  /\ lenF = <<>>
  /\ \E n \in 0..MaxLen :
       LET r == fillBuffer(engF, n)
       IN  /\ engF' = r.state
           /\ bufF' = Append(bufF, r.buffer)
           /\ lenF' = Append(lenF, n)
  /\ UNCHANGED <<curSeed, engA, engB, baseA, baseB, histA, histB, refA, refHistA>>
  /\ UNCHANGED <<chunkVars, fsVars, seedVars, handleVars, workVars, runVars, raceVars>>

\* engine F again: a second fillBuffer(buffer), the two lengths together
\* within MaxLen
FillAgainF ==
  /\ Len(lenF) = 1
  /\ \E n \in 0..(MaxLen - lenF[1]) :
       LET r == fillBuffer(engF, n)
       IN  /\ engF' = r.state
           /\ bufF' = Append(bufF, r.buffer)
           /\ lenF' = Append(lenF, n)
  /\ UNCHANGED <<curSeed, engA, engB, baseA, baseB, histA, histB, refA, refHistA>>
  /\ UNCHANGED <<chunkVars, fsVars, seedVars, handleVars, workVars, runVars, raceVars>>

Min(a, b) == IF a <= b THEN a ELSE b
CeilDiv4(n) == (n + 3) \div 4
Take(sq, n) == SubSeq(sq, 1, n)

C2_MatchesReference ==
  \A k \in 1..Len(histA) :
    /\ histA[k] = refHistA[k]
    /\ histA[k][1] = 0
    /\ histA[k][2] \in 0..(W16 - 1) /\ histA[k][3] \in 0..(W16 - 1)

\* The little-endian serialization of a sequence of 32-bit values.
RECURSIVE SerializeLE(_)
SerializeLE(values) ==
  IF values = <<>> THEN <<>>
  ELSE LET v == Head(values)
       IN  <<v[3] % 256, (v[3] \div 256) % 256, v[2] % 256, (v[2] \div 256) % 256>>
             \o SerializeLE(Tail(values))

\* C3: one fillBuffer call of length L on a fresh engine writes the first L
\* bytes of the little-endian serialization of ceil(L/4) nextUint32() draws
\* of an engine with the same seed, and leaves the register where those
\* ceil(L/4) draws leave it.
C3_FillIsTruncatedStream ==
  (Len(lenF) = 1 /\ baseB = 0 /\ Len(histB) = CeilDiv4(lenF[1])) =>
    /\ bufF[1] = Take(SerializeLE(histB), lenF[1])
    /\ Len(bufF[1]) = lenF[1]
    /\ engF = engB

C3_Witness ==
  /\ Len(lenF) = 1 /\ lenF[1] = 7
  /\ Len(histB) = 2
  /\ bufF[1] = Take(SerializeLE(histB), 7)

\* The value of the k-th nextUint32() call from the given register (k >= 1),
\* the k - 1 calls before it being exact additions.
NthValue(state, k) == nextUint32(Advance(state, k - 1)).value

\* The values of `count` nextUint32() calls from the given register, the
\* first of them being call number `from`.
Draws(state, from, count) == [i \in 1..count |-> NthValue(state, from + i - 1)]

\* The bytes one fillBuffer call of the two lengths together leaves, from a
\* fresh engine with the current seed, by the stream of draws.
SingleFill ==
  Take(SerializeLE(Draws(SeededRandom(curSeed), 1, CeilDiv4(lenF[1] + lenF[2]))),
       lenF[1] + lenF[2])

\* C27 as claimed: two fillBuffer calls of lengths a and b on one engine leave
\* the bytes of a single call of length a + b exactly when a is a multiple of
\* 4 or b is 0.
C27_ComposesIffAligned ==
  Len(lenF) = 2 =>
    ((bufF[1] \o bufF[2] = SingleFill) <=> (lenF[1] % 4 = 0 \/ lenF[2] = 0))

\* C27 amended: the first call leaves the first a bytes of the single call;
\* the second leaves the first b bytes of the serialization of the draws that
\* follow the ceil(a/4) draws of the first, the unused bytes of the first
\* call's last draw being dropped; so the two calls leave the bytes of the
\* single call whenever a is a multiple of 4 or b is 0, and otherwise only
\* where the bytes of the next draw happen to equal the dropped ones.
C27_SecondFillStartsAtNextDraw ==
  Len(lenF) = 2 =>
    /\ bufF[1] = Take(SingleFill, lenF[1])
    /\ bufF[2] = Take(SerializeLE(Draws(SeededRandom(curSeed), CeilDiv4(lenF[1]) + 1,
                                        CeilDiv4(lenF[2]))), lenF[2])
    /\ (lenF[1] % 4 = 0 \/ lenF[2] = 0) => bufF[1] \o bufF[2] = SingleFill

\* Lengths 3 and 4: the second buffer holds the second draw and differs from
\* bytes 3..6 of the single call.
C27_Witness ==
  /\ Len(lenF) = 2 /\ lenF[1] = 3 /\ lenF[2] = 4
  /\ bufF[2] = SerializeLE(Draws(SeededRandom(curSeed), 2, 1))
  /\ bufF[1] \o bufF[2] # SingleFill

\* fillBuffer(buffer) on a buffer of the given length: the byte it leaves at
\* index j of the buffer (0 <= j < length).
fillBufferAt(state, length, j) ==
  LET uint32Count == length \div 4
  IN  IF j < uint32Count * 4
      THEN writeUInt32LE(NthValue(state, (j \div 4) + 1))[(j % 4) + 1]
      ELSE LowByte(ShrS(NthValue(state, uint32Count + 1), (j - uint32Count * 4) * 8))

\* fillBuffer(buffer) on a buffer of the given length: the register it leaves.
fillBufferState(state, length) ==
  Advance(state, (length \div 4) + (IF length % 4 > 0 THEN 1 ELSE 0))

\* The two readings of fillBuffer agree: byte by byte and in the register.
SampledFillAgrees ==
  Len(lenF) = 1 =>
    /\ \A j \in 0..(lenF[1] - 1) :
         fillBufferAt(SeededRandom(curSeed), lenF[1], j) = bufF[1][j + 1]
    /\ fillBufferState(SeededRandom(curSeed), lenF[1]) = engF

(***************************************************************************)
(* writeRandomFile, byte for byte, with the chunk size as a parameter: two *)
(* calls X and Y with the same seed and size, each with a chunk size of    *)
(* its own.                                                                *)
(***************************************************************************)
MaxFileSize == 10
MaxChunk == 8

\* The loop with every chunk filled from the engine as first constructed.
RECURSIVE WriteLoopStale(_, _, _, _, _)
WriteLoopStale(rng, bytesWritten, size, chunkSize, data) ==
  IF bytesWritten >= size THEN data
  ELSE LET bytesToWrite == Min(chunkSize, size - bytesWritten)
           r            == fillBuffer(rng, bytesToWrite)
       IN  WriteLoopStale(rng, bytesWritten + bytesToWrite, size, chunkSize,
                          data \o r.buffer)

\* while (bytesWritten < size) { fillBuffer(writeBuffer); writeSync(fd, writeBuffer) }
\* data is what the writes so far appended to the file opened with 'w'.
RECURSIVE WriteLoop(_, _, _, _, _)
WriteLoop(rng, bytesWritten, size, chunkSize, data) ==
  IF bytesWritten >= size THEN data
  ELSE LET bytesToWrite == Min(chunkSize, size - bytesWritten)
           r            == fillBuffer(rng, bytesToWrite)
       IN  WriteLoop(r.state, bytesWritten + bytesToWrite, size, chunkSize,
                     data \o r.buffer)

\* writeRandomFile(filePath, seed, size) with WRITE_CHUNK_SIZE = chunkSize:
\* the content of the file after the call.
writeRandomFileBytes(seed, size, chunkSize) ==
  WriteLoop(SeededRandom(seed), 0, size, chunkSize, <<>>)

\* The loop of writeRandomFile read chunk by chunk: chunk c (from 0) starts at
\* offset c * chunkSize with the register c full chunks have left, and holds
\* min(chunkSize, size - c * chunkSize) bytes.  The byte at offset o of the file:
writeRandomFileAt(seed, size, chunkSize, o) ==
  LET c            == o \div chunkSize
      bytesWritten == c * chunkSize
      bytesToWrite == Min(chunkSize, size - bytesWritten)
      rng          == Advance(SeededRandom(seed), c * CeilDiv4(chunkSize))
  IN  fillBufferAt(rng, bytesToWrite, o - bytesWritten)

\* The loop leaving as soon as less than a whole chunk is missing.
writeRandomFileSizeEarly(size, chunkSize) ==
  IF size = 0 THEN 0 ELSE ((size - 1) \div chunkSize) * chunkSize

\* bytesWritten when the loop ends: whole chunks, then the rest.
writeRandomFileSize(size, chunkSize) ==
  LET whole == size \div chunkSize
      rest  == size - whole * chunkSize
  IN  whole * chunkSize + Min(chunkSize, rest)

\* The two readings of writeRandomFile agree.
SampledWriteAgrees ==
  /\ chunkX > 0 =>
       /\ Len(fileX) = writeRandomFileSize(wSize, chunkX)
       /\ \A o \in 0..(wSize - 1) :
            writeRandomFileAt(curSeed, wSize, chunkX, o) = fileX[o + 1]
  /\ chunkY > 0 =>
       /\ Len(fileY) = writeRandomFileSize(wSize, chunkY)
       /\ \A o \in 0..(wSize - 1) :
            writeRandomFileAt(curSeed, wSize, chunkY, o) = fileY[o + 1]

ChunkInit ==
  /\ wSize \in 0..MaxFileSize
  /\ chunkX = 0 /\ chunkY = 0
  /\ fileX = <<>> /\ fileY = <<>>

WriteX ==
  /\ chunkX = 0
  /\ \E c \in 1..MaxChunk :
       /\ chunkX' = c
       /\ fileX' = writeRandomFileBytes(curSeed, wSize, c)
  /\ UNCHANGED <<wSize, chunkY, fileY>>
  /\ UNCHANGED <<engineVars, fsVars, seedVars, handleVars, workVars, runVars, raceVars>>

WriteY ==
  /\ chunkY = 0
  /\ \E c \in 1..MaxChunk :
       /\ chunkY' = c
       /\ fileY' = writeRandomFileBytes(curSeed, wSize, c)
  /\ UNCHANGED <<wSize, chunkX, fileX>>
  /\ UNCHANGED <<engineVars, fsVars, seedVars, handleVars, workVars, runVars, raceVars>>

Aligned(c) == c % 4 = 0 \/ c >= wSize

IsUint32(x) == x[1] = 0 /\ x[2] \in 0..(W16 - 1) /\ x[3] \in 0..(W16 - 1)

\* C18: the engine's state register is a 32-bit unsigned integer: after
\* construction with a seed in 0..2^32-1 and after any number of nextUint32()
\* calls, the stored state is in 0..2^32-1.
C18_StateIsUint32 ==
  IsUint32(curSeed) => (IsUint32(engA) /\ IsUint32(engB))

(***************************************************************************)
(* The hierarchy on disk.  A data file is <<l1, l2, l3, f>>, standing for   *)
(* baseDir/dir_<l1>/sub_<l2>/leaf_<l3>/data_<f>.bin, and is kept under its *)
(* position Index(<<l1, l2, l3, f>>) in the traversal l1 -> l2 -> l3 -> f; *)
(* a directory is the prefix of such a path.  A file's content is its size *)
(* and the bytes it holds at the offsets of SampleOffsets (-1 past its     *)
(* end).                                                                   *)
(***************************************************************************)
LEVEL_2_DIRS == 10
LEVEL_3_DIRS == 10
FILES_PER_LEAF == 5
FILE_SIZE_BYTES == 2 * 1024 * 1024
WRITE_CHUNK_SIZE == 64 * 1024

\* The largest sizeGb the operations are called with.
MaxGb == 2

\* First and last 32-bit word of the first chunk, first byte of the second
\* chunk, last byte of the file.
SampleOffsets ==
  <<0, 1, 2, 3, WRITE_CHUNK_SIZE - 4, WRITE_CHUNK_SIZE - 1, WRITE_CHUNK_SIZE,
    FILE_SIZE_BYTES - 1>>

FilesPerGb == LEVEL_2_DIRS * LEVEL_3_DIRS * FILES_PER_LEAF

\* Positions of the data files the model keeps: those of dir_0 .. dir_<MaxGb-1>.
Positions == 0..(MaxGb * FilesPerGb - 1)

\* Position of a path in the traversal, and the path at a position.
Index(p) ==
  ((p[1] * LEVEL_2_DIRS + p[2]) * LEVEL_3_DIRS + p[3]) * FILES_PER_LEAF + p[4]
PathAt(i) ==
  <<i \div FilesPerGb,
    (i \div (LEVEL_3_DIRS * FILES_PER_LEAF)) % LEVEL_2_DIRS,
    (i \div FILES_PER_LEAF) % LEVEL_3_DIRS,
    i % FILES_PER_LEAF>>

\* What the nested loops of generate and verify visit for sizeGb = n.
Expected(n) == 0..(n * FilesPerGb - 1)

\* writeRandomFile(filePath, seed, size): the file it leaves (opened with
\* 'w', so whatever the path held before is gone), read at the sampled offsets.
writeRandomFile(seed, size) ==
  [size  |-> writeRandomFileSize(size, WRITE_CHUNK_SIZE),
   bytes |-> [k \in 1..Len(SampleOffsets) |->
                IF SampleOffsets[k] < size
                THEN writeRandomFileAt(seed, size, WRITE_CHUNK_SIZE, SampleOffsets[k])
                ELSE -1]]

\* What generateFileHierarchy writes at each position.
GeneratedFile ==
  [i \in Positions |->
     writeRandomFile(getFileSeed(PathAt(i)[1], PathAt(i)[2], PathAt(i)[3], PathAt(i)[4]),
                     FILE_SIZE_BYTES)]

\* baseDir does not exist / is a regular file / is a directory holding
\* directories (dirs), data files (files, a function from the positions that
\* hold a file to its content) and files of other names (other).
NoFiles == [i \in {} |-> 0]
AbsentTree == [kind |-> "absent", dirs |-> {}, files |-> NoFiles, other |-> {}]
FileTree == [kind |-> "file", dirs |-> {}, files |-> NoFiles, other |-> {}]
EmptyDir == [kind |-> "dir", dirs |-> {}, files |-> NoFiles, other |-> {}]
StrayDir == [kind |-> "dir", dirs |-> {}, files |-> NoFiles, other |-> {"notes.txt"}]
NoSnap == [kind |-> "none", dirs |-> {}, files |-> NoFiles, other |-> {}]

\* A directory used before: it holds a file of another name and, at the first
\* expected path, a file that is one byte too long and holds other bytes.
UsedDir ==
  [kind  |-> "dir",
   dirs  |-> {<<0>>, <<0, 0>>, <<0, 0, 0>>},
   files |-> [i \in {0} |->
                [size  |-> FILE_SIZE_BYTES + 1,
                 bytes |-> [k \in 1..Len(SampleOffsets) |-> 0]]],
   other |-> {"notes.txt"}]

\* Position of the first path under a directory.
FirstIndex(d) ==
  Index(<<d[1], IF Len(d) >= 2 THEN d[2] ELSE 0, IF Len(d) >= 3 THEN d[3] ELSE 0, 0>>)

AllDirs ==
  {<<l1>> : l1 \in 0..(MaxGb - 1)}
    \cup {<<l1, l2>> : l1 \in 0..(MaxGb - 1), l2 \in 0..(LEVEL_2_DIRS - 1)}
    \cup {<<l1, l2, l3>> : l1 \in 0..(MaxGb - 1), l2 \in 0..(LEVEL_2_DIRS - 1),
                           l3 \in 0..(LEVEL_3_DIRS - 1)}

\* An I/O failure inside generate: the call for the file at position `at`
\* throws at a writeSync after `written` bytes had reached the file.
NoFailure == [at |-> -1, written |-> -1]
Failures(n) == {NoFailure, [at |-> 0, written |-> 0]}

\* The file writeRandomFile leaves when a writeSync throws after `written`
\* bytes: opened with 'w', so it holds those bytes only.
PartialFile(i, written) ==
  [size  |-> written,
   bytes |-> [k \in 1..Len(SampleOffsets) |->
                IF SampleOffsets[k] < written THEN GeneratedFile[i].bytes[k] ELSE -1]]

\* The loops that stop one file early.
generateFileHierarchyShort(tree, sizeGb, fail) ==
  IF tree.kind = "file" THEN [tree |-> tree, threw |-> TRUE]
  ELSE LET totalFiles == sizeGb * FilesPerGb - 1
           stop       == IF fail = NoFailure THEN totalFiles ELSE fail.at
           written    == IF fail = NoFailure THEN 0..(stop - 1) ELSE 0..stop
       IN  [tree |->
              [kind  |-> "dir",
               dirs  |-> tree.dirs \cup {d \in AllDirs : FirstIndex(d) <= Min(stop, totalFiles - 1)},
               files |-> [i \in (DOMAIN tree.files) \cup written |->
                            IF i < stop THEN GeneratedFile[i]
                            ELSE IF i = stop /\ fail # NoFailure
                                 THEN PartialFile(i, fail.written)
                                 ELSE tree.files[i]],
               other |-> tree.other],
            threw |-> fail # NoFailure]

\* The loops that leave a data file that is already there as it is.
generateFileHierarchySkipping(tree, sizeGb, fail) ==
  IF tree.kind = "file" THEN [tree |-> tree, threw |-> TRUE]
  ELSE LET totalFiles == sizeGb * FilesPerGb
           stop       == IF fail = NoFailure THEN totalFiles ELSE fail.at
           written    == IF fail = NoFailure THEN 0..(stop - 1) ELSE 0..stop
       IN  [tree |->
              [kind  |-> "dir",
               dirs  |-> tree.dirs \cup {d \in AllDirs : FirstIndex(d) <= Min(stop, totalFiles - 1)},
               files |-> [i \in (DOMAIN tree.files) \cup written |->
                            IF i \in DOMAIN tree.files THEN tree.files[i]
                            ELSE IF i < stop THEN GeneratedFile[i]
                                 ELSE PartialFile(i, fail.written)],
               other |-> tree.other],
            threw |-> fail # NoFailure]

\* The loops that open each file for appending.
generateFileHierarchyAppending(tree, sizeGb, fail) ==
  IF tree.kind = "file" THEN [tree |-> tree, threw |-> TRUE]
  ELSE LET totalFiles == sizeGb * FilesPerGb
           stop       == IF fail = NoFailure THEN totalFiles ELSE fail.at
           written    == IF fail = NoFailure THEN 0..(stop - 1) ELSE 0..stop
           before(i)  == IF i \in DOMAIN tree.files THEN tree.files[i].size ELSE 0
       IN  [tree |->
              [kind  |-> "dir",
               dirs  |-> tree.dirs \cup {d \in AllDirs : FirstIndex(d) <= Min(stop, totalFiles - 1)},
               files |-> [i \in (DOMAIN tree.files) \cup written |->
                            IF i < stop
                            THEN IF before(i) = 0 THEN GeneratedFile[i]
                                 ELSE [size  |-> before(i) + FILE_SIZE_BYTES,
                                       bytes |-> tree.files[i].bytes]
                            ELSE IF i = stop /\ fail # NoFailure
                                 THEN IF before(i) = 0 THEN PartialFile(i, fail.written)
                                      ELSE [size  |-> before(i) + fail.written,
                                            bytes |-> tree.files[i].bytes]
                                 ELSE tree.files[i]],
               other |-> tree.other],
            threw |-> fail # NoFailure]

\* The loops run on a directory emptied first.
generateFileHierarchyClean(tree, sizeGb, fail) ==
  IF tree.kind = "file" THEN [tree |-> tree, threw |-> TRUE]
  ELSE LET totalFiles == sizeGb * FilesPerGb
           stop       == IF fail = NoFailure THEN totalFiles ELSE fail.at
           written    == IF fail = NoFailure THEN 0..(stop - 1) ELSE 0..stop
       IN  [tree |->
              [kind  |-> "dir",
               dirs  |-> {d \in AllDirs : FirstIndex(d) <= Min(stop, totalFiles - 1)},
               files |-> [i \in written |->
                            IF i < stop THEN GeneratedFile[i]
                            ELSE PartialFile(i, fail.written)],
               other |-> {}],
            threw |-> fail # NoFailure]

\* generateFileHierarchy(baseDir, sizeGb) on the given tree: the tree it
\* leaves and whether it threw.  mkdirSync(baseDir) throws when baseDir is a
\* regular file; the loops write the files in traversal order, creating each
\* leaf directory (and its parents) before the leaf's first file, and stop at
\* the first call that throws.
generateFileHierarchy(tree, sizeGb, fail) ==
  IF tree.kind = "file" THEN [tree |-> tree, threw |-> TRUE]
  ELSE LET totalFiles == sizeGb * FilesPerGb
           stop       == IF fail = NoFailure THEN totalFiles ELSE fail.at
           written    == IF fail = NoFailure THEN 0..(stop - 1) ELSE 0..stop
       IN  [tree |->
              [kind  |-> "dir",
               dirs  |-> tree.dirs \cup {d \in AllDirs : FirstIndex(d) <= Min(stop, totalFiles - 1)},
               files |-> [i \in (DOMAIN tree.files) \cup written |->
                            IF i < stop THEN GeneratedFile[i]
                            ELSE IF i = stop /\ fail # NoFailure
                                 THEN PartialFile(i, fail.written)
                                 ELSE tree.files[i]],
               other |-> tree.other],
            threw |-> fail # NoFailure]

\* rmSync without force: a missing path is an error.
rmSyncNoForce(tree) ==
  IF tree.kind = "absent" THEN [tree |-> tree, threw |-> TRUE]
  ELSE [tree |-> AbsentTree, threw |-> FALSE]

\* rmSync without recursive, its error swallowed: only an empty directory or
\* a file goes.
rmSyncNotRecursive(tree) ==
  IF tree.kind = "dir" /\ (tree.dirs # {} \/ tree.other # {})
  THEN [tree |-> tree, threw |-> FALSE]
  ELSE [tree |-> AbsentTree, threw |-> FALSE]

\* fs.rmSync(baseDir, {recursive: true, force: true})
rmSync(tree) == [tree |-> AbsentTree, threw |-> FALSE]

\* deleteFileHierarchy(baseDir)
deleteFileHierarchy(tree) == rmSync(tree)

\* fs.existsSync(filePath) that answers true for every path.
existsSyncAlways(tree, i) == TRUE

\* fs.existsSync(filePath) for the data file at a position: never throws.
existsSync(tree, i) == tree.kind = "dir" /\ i \in DOMAIN tree.files

\* fs.statSync(filePath) for the data file at a position: throws when nothing
\* is there.
statSync(tree, i) ==
  IF i \in DOMAIN tree.files
  THEN [threw |-> FALSE, size |-> tree.files[i].size]
  ELSE [threw |-> TRUE, size |-> -1]

\* The size test that accepts every file that is not longer than expected.
WrongSizeLonger(size) == size > FILE_SIZE_BYTES

\* stats.size !== FILE_SIZE_BYTES
WrongSize(size) == size # FILE_SIZE_BYTES

\* The loop body that also compares the file's bytes with the seeded stream.
VerifyFileBytes(tree, i) ==
  IF ~existsSync(tree, i) THEN "missing"
  ELSE IF statSync(tree, i).threw THEN "threw"
       ELSE IF WrongSize(statSync(tree, i).size) THEN "size"
            ELSE IF tree.files[i].bytes # GeneratedFile[i].bytes THEN "content" ELSE ""

\* The body of the innermost loop of verifyFileHierarchy for one path: ""
\* when the loop goes on, otherwise how the call ends there.
VerifyFile(tree, i) ==
  IF ~existsSync(tree, i) THEN "missing"
  ELSE IF statSync(tree, i).threw THEN "threw"
       ELSE IF WrongSize(statSync(tree, i).size) THEN "size" ELSE ""

\* The positions at which the loop body of verifyFileHierarchy ends the call.
Mismatches(tree, sizeGb) ==
  {i \in Expected(sizeGb) : VerifyFile(tree, i) # ""}

\* The loops that report the last mismatch instead of the first.
verifyFileHierarchyLast(tree, sizeGb) ==
  IF \A i \in Expected(sizeGb) : VerifyFile(tree, i) = ""
  THEN [ok |-> TRUE, kind |-> "", path |-> <<>>, expected |-> FILE_SIZE_BYTES, got |-> -1]
  ELSE LET first == CHOOSE i \in Mismatches(tree, sizeGb) :
                      \A j \in Expected(sizeGb) : j > i => VerifyFile(tree, j) = ""
       IN  [ok       |-> FALSE,
            kind     |-> VerifyFile(tree, first),
            path     |-> PathAt(first),
            expected |-> FILE_SIZE_BYTES,
            got      |-> statSync(tree, first).size]

\* A verify that takes an entry it does not expect for a mismatch.
verifyFileHierarchyStrict(tree, sizeGb) ==
  IF /\ \A i \in Expected(sizeGb) : VerifyFile(tree, i) = ""
     /\ (DOMAIN tree.files) \subseteq Expected(sizeGb)
     /\ tree.other = {}
  THEN [ok |-> TRUE, kind |-> "", path |-> <<>>, expected |-> FILE_SIZE_BYTES, got |-> -1]
  ELSE [ok |-> FALSE, kind |-> "missing", path |-> <<>>, expected |-> FILE_SIZE_BYTES, got |-> -1]

\* verifyFileHierarchy(baseDir, sizeGb): the four loops visit the positions
\* in ascending order and end the call at the first mismatch, returning
\* false after reporting a missing file or a wrong size (with the expected
\* and the actual size), or throwing what statSync threw; true when they run
\* to the end.
verifyFileHierarchy(tree, sizeGb) ==
  IF \A i \in Expected(sizeGb) : VerifyFile(tree, i) = ""
  THEN [ok |-> TRUE, kind |-> "", path |-> <<>>, expected |-> FILE_SIZE_BYTES, got |-> -1]
  ELSE LET first == CHOOSE i \in Mismatches(tree, sizeGb) :
                      \A j \in Expected(sizeGb) : j < i => VerifyFile(tree, j) = ""
       IN  [ok       |-> FALSE,
            kind     |-> VerifyFile(tree, first),
            path     |-> PathAt(first),
            expected |-> FILE_SIZE_BYTES,
            got      |-> statSync(tree, first).size]

\* tar -xf archive -C workDir: the archive's directories and files are
\* written over whatever baseDir holds.
tarExtract(tree, archive) ==
  [kind  |-> "dir",
   dirs  |-> tree.dirs \cup archive.dirs,
   files |-> [i \in (DOMAIN tree.files) \cup (DOMAIN archive.files) |->
                IF i \in DOMAIN archive.files THEN archive.files[i] ELSE tree.files[i]],
   other |-> tree.other \cup archive.other]

Unknown == [is |-> "unknown", n |-> 0, via |-> ""]
NoOp == [op |-> "none", n |-> 0, ok |-> TRUE, kind |-> "", path |-> <<>>]

FsInit ==
  /\ fs \in {AbsentTree, FileTree, EmptyDir, StrayDir}
  /\ snap = NoSnap
  /\ last = NoOp
  /\ pre = fs
  /\ treeIs = Unknown
  /\ snapIs = Unknown
  /\ older = <<>>
  /\ keep = 0
  /\ upTo = MaxGb

\* The outcomes remembered once another operation has ended.
Remember == SubSeq(<<last>> \o older, 1, Min(keep, Len(older) + 1))

\* generateFileHierarchy(baseDir, n), returning or throwing
Generate ==
  \E n \in 1..upTo : \E fail \in Failures(n) :
    \E r \in {generateFileHierarchy(fs, n, fail)} :
      /\ fs' = r.tree
      /\ pre' = fs
      /\ last' = [op |-> "generate", n |-> n, ok |-> ~r.threw, kind |-> "", path |-> <<>>]
      /\ treeIs' = IF ~r.threw THEN [is |-> "generated", n |-> n, via |-> "generate"]
                   ELSE IF fs.kind = "file" THEN treeIs ELSE Unknown
      /\ UNCHANGED <<snap, snapIs>>
      /\ older' = Remember
      /\ UNCHANGED <<keep, upTo>>
      /\ UNCHANGED <<engineVars, chunkVars, seedVars, handleVars, workVars, runVars, raceVars>>

\* deleteFileHierarchy(baseDir)
Delete ==
  \E r \in {deleteFileHierarchy(fs)} :
    /\ fs' = r.tree
    /\ pre' = fs
    /\ last' = [op |-> "delete", n |-> 0, ok |-> ~r.threw, kind |-> "", path |-> <<>>]
    /\ treeIs' = IF r.threw THEN treeIs
                 ELSE [is |-> "deleted", n |-> 0, via |-> "delete"]
    /\ UNCHANGED <<snap, snapIs>>
    /\ older' = Remember
    /\ UNCHANGED <<keep, upTo>>
    /\ UNCHANGED <<engineVars, chunkVars, seedVars, handleVars, workVars, runVars, raceVars>>

\* A verify that removes the file it finds with a wrong size.
VerifyRemoving ==
  \E n \in 0..upTo :
    \E r \in {verifyFileHierarchy(fs, n)} :
      /\ last' = [op |-> "verify", n |-> n, ok |-> r.ok, kind |-> r.kind, path |-> r.path,
                   expected |-> r.expected, got |-> r.got]
      /\ pre' = fs
      /\ fs' = IF r.kind = "size"
               THEN [fs EXCEPT !.files = [i \in (DOMAIN fs.files) \ {Index(r.path)} |->
                                            fs.files[i]]]
               ELSE fs
      /\ UNCHANGED <<snap, treeIs, snapIs>>
      /\ older' = Remember
      /\ UNCHANGED <<keep, upTo>>
      /\ UNCHANGED <<engineVars, chunkVars, seedVars, handleVars, workVars, runVars, raceVars>>

\* verifyFileHierarchy(baseDir, n)
Verify ==
  \E n \in 0..upTo :
    \E r \in {verifyFileHierarchy(fs, n)} :
      /\ last' = [op |-> "verify", n |-> n, ok |-> r.ok, kind |-> r.kind, path |-> r.path,
                   expected |-> r.expected, got |-> r.got]
      /\ pre' = fs
      /\ UNCHANGED <<fs, snap, treeIs, snapIs>>
      /\ older' = Remember
      /\ UNCHANGED <<keep, upTo>>
      /\ UNCHANGED <<engineVars, chunkVars, seedVars, handleVars, workVars, runVars, raceVars>>

\* The archive is made of the tree right after a generate that returned
\* (local-test.ts step 2, index.ts saveCacheWithRetry).
SaveCache ==
  /\ last.op = "generate" /\ last.ok
  /\ snap' = fs
  /\ snapIs' = treeIs
  /\ pre' = fs
  /\ last' = [op |-> "save", n |-> last.n, ok |-> TRUE, kind |-> "", path |-> <<>>]
  /\ UNCHANGED <<fs, treeIs>>
  /\ older' = Remember
  /\ UNCHANGED <<keep, upTo>>
  /\ UNCHANGED <<engineVars, chunkVars, seedVars, handleVars, workVars, runVars, raceVars>>

\* The archive is unpacked (local-test.ts step 4, index.ts
\* restoreCacheWithRetry).
RestoreCache ==
  /\ snap # NoSnap
  /\ fs.kind # "file"
  /\ fs' = tarExtract(fs, snap)
  /\ pre' = fs
  /\ last' = [op |-> "restore", n |-> 0, ok |-> TRUE, kind |-> "", path |-> <<>>]
  /\ treeIs' = IF treeIs.is = "deleted" /\ snapIs.is = "generated"
               THEN [is |-> "generated", n |-> snapIs.n, via |-> "restore"]
               ELSE Unknown
  /\ UNCHANGED <<snap, snapIs>>
  /\ older' = Remember
  /\ UNCHANGED <<keep, upTo>>
  /\ UNCHANGED <<engineVars, chunkVars, seedVars, handleVars, workVars, runVars, raceVars>>

FsNext == Generate \/ Delete \/ Verify \/ SaveCache \/ RestoreCache

\* Where the model stops the process that runs generateFileHierarchy(baseDir,
\* n): in the second file of the last level-1 directory, after the first chunk
\* has been written.
Interruptions(n) ==
  {[at |-> (n - 1) * FilesPerGb + 1, written |-> WRITE_CHUNK_SIZE]}

\* generateFileHierarchy(baseDir, n) whose process is terminated while
\* writeRandomFile is in its loop: the call neither returns nor throws.
Interrupt ==
  /\ fs.kind # "file"
  /\ \E n \in 1..upTo : \E fail \in Interruptions(n) :
       \E r \in {generateFileHierarchy(fs, n, fail)} :
         /\ fs' = r.tree
         /\ pre' = fs
         /\ last' = [op |-> "generate", n |-> n, ok |-> FALSE, kind |-> "", path |-> <<>>]
         /\ treeIs' = [is |-> "interrupted", n |-> n, via |-> "generate", at |-> fail.at]
         /\ older' = Remember
         /\ UNCHANGED <<snap, snapIs, keep, upTo>>
         /\ UNCHANGED <<engineVars, chunkVars, seedVars, handleVars, workVars, runVars, raceVars>>

\* The data files something outside the program may damage in the model.
CorruptAt == {0}

\* Something outside the program changes the first byte of a data file and
\* leaves its length as it is.
Corrupt ==
  \E p \in CorruptAt :
    /\ existsSync(fs, p)
    /\ fs.files[p].size > 0
    /\ fs' = [fs EXCEPT !.files[p].bytes[1] = 255 - @]
    /\ pre' = fs
    /\ last' = [op |-> "corrupt", n |-> 0, ok |-> TRUE, kind |-> "", path |-> PathAt(p)]
    /\ treeIs' = Unknown
    /\ older' = Remember
    /\ UNCHANGED <<snap, snapIs, keep, upTo>>
    /\ UNCHANGED <<engineVars, chunkVars, seedVars, handleVars, workVars, runVars, raceVars>>

\* generateFileHierarchy(baseDir, n) as the first operation on the tree.
FirstGenerate == last.op = "none" /\ Generate

\* The entries of other names something outside the program may add: a file
\* and a directory.
ExtraNames == {"extra.txt", "extra_dir"}

\* Something outside the program adds an entry under baseDir: a file or a
\* directory of another name, or the last data file of the largest hierarchy
\* with the directories above it.
AddExtra ==
  /\ fs.kind = "dir"
  /\ \/ \E e \in ExtraNames \ fs.other :
          /\ fs' = [fs EXCEPT !.other = @ \cup {e}]
          /\ last' = [op |-> "extra", n |-> 0, ok |-> TRUE, kind |-> "", path |-> <<>>]
     \/ \E p \in {upTo * FilesPerGb - 1} \ DOMAIN fs.files :
          /\ fs' = [fs EXCEPT
                      !.dirs = @ \cup {<<PathAt(p)[1]>>, <<PathAt(p)[1], PathAt(p)[2]>>,
                                       <<PathAt(p)[1], PathAt(p)[2], PathAt(p)[3]>>},
                      !.files = [i \in (DOMAIN fs.files) \cup {p} |->
                                   IF i = p THEN GeneratedFile[p] ELSE fs.files[i]]]
          /\ last' = [op |-> "extra", n |-> 0, ok |-> TRUE, kind |-> "", path |-> PathAt(p)]
  /\ pre' = fs
  /\ older' = Remember
  /\ UNCHANGED <<snap, treeIs, snapIs, keep, upTo>>
  /\ UNCHANGED <<engineVars, chunkVars, seedVars, handleVars, workVars, runVars, raceVars>>

(***************************************************************************)
(* Claims about the hierarchy.                                             *)
(***************************************************************************)
GenerateCompleted == last.op = "generate" /\ last.ok

\* Files under the tree: data files and files of other names.
FileCount(tree) == Cardinality(DOMAIN tree.files) + Cardinality(tree.other)

\* Files under the tree that generate(dir, n) does not write.
FilesOutside(tree, n) ==
  Cardinality((DOMAIN tree.files) \ Expected(n)) + Cardinality(tree.other)

\* Total size of the data files, in KiB; every size the model writes is a
\* whole number of KiB.
RECURSIVE SumKiB(_, _)
SumKiB(tree, sizes) ==
  IF sizes = {} THEN 0
  ELSE LET sz == CHOOSE x \in sizes : TRUE
       IN  (sz \div 1024) * Cardinality({i \in DOMAIN tree.files : tree.files[i].size = sz})
             + SumKiB(tree, sizes \ {sz})
TotalKiB(tree) == SumKiB(tree, {tree.files[i].size : i \in DOMAIN tree.files})

UnsignedSeed(p) ==
  RefXor(RefXor(RefXor(RefXor(MASTER_SEED, <<0, p[1] * 256, 0>>), <<0, p[2], 0>>),
                <<0, 0, p[3] * 256>>), <<0, 0, p[4]>>)

\* Byte o of the little-endian serialization of the nextUint32 stream of an
\* engine constructed with the given seed.
StreamByte(seed, o) ==
  SerializeLE(<<nextUint32(Advance(SeededRandom(seed), o \div 4)).value>>)[(o % 4) + 1]

\* That stream for the file at each position, at the sampled offsets.
ReferenceBytes ==
  [i \in Positions |->
     [k \in 1..Len(SampleOffsets) |-> StreamByte(UnsignedSeed(PathAt(i)), SampleOffsets[k])]]

\* C6: after generate(dir, n) completes, every expected file has 2097152
\* bytes and holds, at every sampled offset, the byte that the little-endian
\* serialization of the nextUint32 stream of an engine seeded with the
\* unsigned value 0xDEADBEEF XOR (l1<<24) XOR (l2<<16) XOR (l3<<8) XOR m has
\* there; byte 0 of the first file is the low byte of the first draw of an
\* engine seeded 0xDEADBEEF.
C6_ContentIsSeededStream ==
  GenerateCompleted =>
    /\ \A i \in Expected(last.n) :
         /\ existsSync(fs, i)
         /\ fs.files[i].size = FILE_SIZE_BYTES
         /\ fs.files[i].bytes = ReferenceBytes[i]
    /\ fs.files[0].bytes[1] = LowByte(nextUint32(SeededRandom(MASTER_SEED)).value)

\* generate(dir, 2) completed; the last file of dir_1 holds its stream.
C6_Witness ==
  /\ GenerateCompleted /\ last.n = 2
  /\ fs.files[Index(<<1, 9, 9, 4>>)].bytes = <<11, 184, 1, 218, 86, 107, 144, 129>>
  /\ fs.files[0].bytes = <<90, 153, 253, 240, 255, 30, 219, 232>>

\* C8: if generate(dir, n) completed and the tree was then left untouched, or
\* deleted and restored from an archive made right after that generation,
\* verify(dir, n) returns true.
C8_GenerateThenVerify ==
  (last.op = "verify" /\ treeIs.is = "generated" /\ treeIs.n = last.n) => last.ok

\* verify(dir, 2) returned true on a tree that was generated, archived,
\* deleted and restored.
C8_Witness ==
  /\ last.op = "verify" /\ last.n = 2 /\ last.ok
  /\ treeIs = [is |-> "generated", n |-> 2, via |-> "restore"]

\* C9: in a state reached by delete(dir) with no write under dir since,
\* verify(dir, n) for n >= 1 returns false and reports the first expected
\* path, dir_0/sub_0/leaf_0/data_0.bin, as missing.
C9_DeleteThenVerify ==
  (last.op = "verify" /\ last.n >= 1 /\ treeIs.is = "deleted") =>
    /\ ~last.ok
    /\ last.path = <<0, 0, 0, 0>>
    /\ last.kind = "missing"

\* verify(dir, 2) returned false on a tree that an archive shows was
\* generated before it was deleted.
C9_Witness ==
  /\ last.op = "verify" /\ last.n = 2 /\ ~last.ok /\ last.path = <<0, 0, 0, 0>>
  /\ treeIs.is = "deleted"
  /\ snapIs.is = "generated"

\* C10: delete(baseDir) returns without throwing and leaves baseDir and
\* every path beneath it absent; when baseDir did not exist the tree is as it
\* was.
C10_DeleteLeavesAbsent ==
  last.op = "delete" =>
    /\ last.ok
    /\ fs.kind = "absent" /\ fs.dirs = {} /\ fs.other = {} /\ DOMAIN fs.files = {}
    /\ pre.kind = "absent" => fs = pre

\* delete(baseDir) returned on a baseDir that did not exist.
C10_Witness ==
  /\ last.op = "delete" /\ last.ok
  /\ pre.kind = "absent" /\ fs = pre

\* The expected path at position i holds a file of exactly 2097152 bytes.
HasFullFile(tree, i) ==
  tree.kind = "dir" /\ i \in DOMAIN tree.files /\ tree.files[i].size = 2097152

\* The expected paths of sizeGb = n, as positions in ascending (l1, l2, l3, m)
\* order, that are missing or have another size.
Offending(tree, n) ==
  {Index(<<l1, l2, l3, m>>) : l1 \in 0..(n - 1), l2 \in 0..9, l3 \in 0..9, m \in 0..4}
    \ {i \in 0..(n * 500 - 1) : HasFullFile(tree, i)}

\* C11: verify(baseDir, n) returns true if and only if every expected path
\* exists with size exactly 2097152; otherwise it returns false at the first
\* expected path, in ascending l1, l2, l3, m order, that is missing or has
\* another size, reporting a missing path as missing and a wrong size with
\* the expected and the actual size.
C11_VerifyContract ==
  last.op = "verify" =>
    /\ last.ok <=> Offending(fs, last.n) = {}
    /\ ~last.ok =>
         \E first \in Offending(fs, last.n) :
           /\ \A j \in Offending(fs, last.n) : first <= j
           /\ last.path = PathAt(first)
           /\ last.kind = IF first \in DOMAIN fs.files THEN "size" ELSE "missing"
           /\ last.kind = "size" =>
                last.expected = 2097152 /\ last.got = fs.files[first].size

\* verify(dir, 1) returned false at the second path, whose file an
\* interrupted generate left with 65536 bytes behind a complete first file.
C11_Witness ==
  /\ last.op = "verify" /\ last.n = 1 /\ ~last.ok
  /\ last.path = <<0, 0, 0, 1>> /\ last.kind = "size" /\ last.got = 65536
  /\ HasFullFile(fs, 0)

\* The last three operations were verify(dir, n), a change of a file's bytes
\* that kept its length, and verify(dir, n) again.
VerifiedAroundCorruption ==
  /\ last.op = "verify" /\ Len(older) = 2
  /\ older[1].op = "corrupt"
  /\ older[2].op = "verify" /\ older[2].n = last.n

\* C12: verify's result does not depend on file contents: on two trees with
\* the same paths and file sizes but different bytes in a file, verify(dir, n)
\* returns the same value and report, so a corrupted file of the correct size
\* passes.
C12_ContentBlind ==
  VerifiedAroundCorruption => last = older[2]

\* verify(dir, 1) returned true before and after the first byte of
\* dir_0/sub_0/leaf_0/data_0.bin was changed.
C12_Witness ==
  /\ VerifiedAroundCorruption /\ last.n = 1 /\ last.ok /\ older[2].ok
  /\ older[1].path = <<0, 0, 0, 0>>
  /\ fs.files[0].size = FILE_SIZE_BYTES
  /\ fs.files[0].bytes # GeneratedFile[0].bytes

\* C13: verify(dir, n) creates, deletes and modifies no path: the tree and
\* the archive are as they were when it was called; and a verify(dir, n) that
\* follows a verify(dir, n) with no operation between them returns the same
\* result and report.
C13_VerifyReadOnlyRepeatable ==
  last.op = "verify" =>
    /\ fs = pre
    /\ (Len(older) >= 1 /\ older[1].op = "verify" /\ older[1].n = last.n) => last = older[1]

\* verify(dir, 1) returned false twice in succession, at the file an
\* interrupted generate left short, which is still there.
C13_Witness ==
  /\ last.op = "verify" /\ last.n = 1 /\ ~last.ok /\ last.kind = "size"
  /\ last.path = <<0, 0, 0, 1>>
  /\ Len(older) = 1 /\ older[1] = last
  /\ fs = pre /\ fs.files[1].size = WRITE_CHUNK_SIZE

\* C14: whenever an expected file is missing or has the wrong size,
\* verify(dir, n) returns false after an error message that names the path of
\* such a file and says which of the two it found; the call does not throw.
C14_MismatchIsReturned ==
  (last.op = "verify" /\ Offending(fs, last.n) # {}) =>
    /\ ~last.ok
    /\ last.kind # "threw"
    /\ last.kind \in {"missing", "size"}
    /\ Index(last.path) \in Offending(fs, last.n)

\* verify(dir, 1) returned false, reporting a missing path, where baseDir is
\* a regular file.
C14_Witness ==
  /\ last.op = "verify" /\ last.n = 1 /\ ~last.ok
  /\ last.kind = "missing" /\ last.path = <<0, 0, 0, 0>>
  /\ fs.kind = "file"

\* The tree holds what a generate(dir, n) left when it was stopped inside the
\* file at position treeIs.at, and this is the first operation since.
AfterInterrupt(opname) ==
  /\ last.op = opname
  /\ Len(older) >= 1 /\ older[1].op = "generate" /\ ~older[1].ok /\ older[1].n = last.n

\* C16 as claimed: after a generate(dir, n) that was interrupted inside a file,
\* leaving it shorter than 2 MiB, verify(dir, n) does not report that file, and
\* a generate(dir, n) that completes leaves every file that was short as it
\* was.
C16_NeitherRecognizedNorRepaired ==
  /\ (AfterInterrupt("verify") /\ treeIs.is = "interrupted") =>
       ~(~last.ok /\ last.path = PathAt(treeIs.at))
  /\ (AfterInterrupt("generate") /\ last.ok) =>
       \A i \in Expected(last.n) :
         (i \in DOMAIN pre.files /\ pre.files[i].size < FILE_SIZE_BYTES) =>
           fs.files[i] = pre.files[i]

\* C16 amended: after a generate(dir, n) that was interrupted inside a file,
\* leaving it shorter than 2 MiB, verify(dir, n) returns false and reports that
\* file with its wrong size; a generate(dir, n) that completes rewrites every
\* expected file, the short one included, without a delete before it; and so
\* does a generate(dir, n) that completes after a delete.
C16_RecognizedAndRepaired ==
  /\ (AfterInterrupt("verify") /\ treeIs.is = "interrupted") =>
       /\ ~last.ok /\ last.kind = "size"
       /\ last.path = PathAt(treeIs.at)
       /\ last.got < FILE_SIZE_BYTES /\ last.got = fs.files[treeIs.at].size
  /\ (GenerateCompleted /\ Len(older) >= 1
        /\ (older[1].op = "delete" \/ (older[1].op = "generate" /\ ~older[1].ok))) =>
       \A i \in Expected(last.n) : existsSync(fs, i) /\ fs.files[i] = GeneratedFile[i]

\* generate(dir, 1) completed right after a generate(dir, 1) that had been
\* stopped one chunk into the second file; that file is whole again.
C16_Witness ==
  /\ AfterInterrupt("generate") /\ last.ok /\ last.n = 1
  /\ 1 \in DOMAIN pre.files /\ pre.files[1].size = WRITE_CHUNK_SIZE
  /\ fs.files[1] = GeneratedFile[1]

\* C17: when generate(dir, n) completes, whatever length and content the
\* expected files had before (none, those of an aborted run, those of another
\* program), every expected file has exactly 2097152 bytes and holds its
\* seeded content at the sampled offsets; a generate(dir, n) that completes
\* right after a generate(dir, n) that completed leaves the tree as it was.
C17_RerunOverwrites ==
  GenerateCompleted =>
    /\ \A i \in Expected(last.n) :
         /\ existsSync(fs, i)
         /\ fs.files[i] = [size |-> 2097152, bytes |-> ReferenceBytes[i]]
    /\ (Len(older) >= 1 /\ older[1].op = "generate" /\ older[1].ok
          /\ older[1].n = last.n) => fs = pre

\* generate(dir, 1) completed on a directory whose first expected file was
\* one byte too long and held other bytes.
C17_Witness ==
  /\ GenerateCompleted /\ last.n = 1
  /\ 0 \in DOMAIN pre.files /\ pre.files[0].size = FILE_SIZE_BYTES + 1
  /\ fs.files[0] = GeneratedFile[0] /\ fs.files[0] # pre.files[0]

\* The directories generate(dir, n) makes: the prefixes of its expected paths.
ExpectedDirs(n) == {d \in AllDirs : FirstIndex(d) < n * FilesPerGb}

\* What a call of generate(dir, n) leaves alone, between the state before it
\* and the state after it.
GenerateFrame(before, after, n) ==
  /\ before.kind = "file" => after = before
  /\ before.kind # "file" =>
       /\ after.other = before.other
       /\ \A i \in Positions \ Expected(n) :
            /\ existsSync(after, i) <=> existsSync(before, i)
            /\ existsSync(after, i) => after.files[i] = before.files[i]
       /\ before.dirs \subseteq after.dirs
       /\ after.dirs \ before.dirs \subseteq ExpectedDirs(n)
       /\ (DOMAIN before.files) \subseteq (DOMAIN after.files)

\* C21: a call of generate(dir, n), returning or throwing, leaves unchanged
\* every path that is not one of its own expected directories or files: the
\* archive kept outside dir, the files of other names under dir, the data
\* files and directories of dir_<k> with k >= n; it removes nothing.
C21_GenerateFrame ==
  [][last'.op = "generate" =>
       /\ GenerateFrame(fs, fs', last'.n)
       /\ snap' = snap]_vars

\* generate(dir, 1) ran on a directory that held a file of another name and
\* the directories and files of dir_1, with an archive kept beside it.
C21_Witness ==
  /\ last.op = "generate" /\ last.n = 1 /\ last.ok
  /\ pre.other = {"notes.txt"} /\ fs.other = {"notes.txt"}
  /\ FilesPerGb \in DOMAIN pre.files
  /\ FilesPerGb \in DOMAIN fs.files
  /\ fs.files[FilesPerGb] = pre.files[FilesPerGb]
  /\ <<1, 0, 0>> \in fs.dirs
  /\ snap.kind # "none"

\* The last three outcomes are a verify, an entry added from outside that
\* this verify does not expect, and a verify of the same size before it.
VerifiedAroundExtra ==
  /\ Len(older) = 2
  /\ last.op = "verify" /\ older[1].op = "extra" /\ older[2].op = "verify"
  /\ older[2].n = last.n
  /\ older[1].path # <<>> => Index(older[1].path) \notin Expected(last.n)

\* C29: after generate(dir, n) has completed on an absent dir, verify(dir, m)
\* returns true when m <= n (m = 0 included) and false when m > n, also
\* once entries of other names or a single further data file have been added
\* under dir; and a file or directory added under dir at a path
\* verify(dir, m) does not expect leaves the outcome of verify(dir, m) as it
\* was, whatever the tree.
C29_VerifyIgnoresExtras ==
  /\ (last.op = "verify" /\ treeIs.is = "generated") => (last.ok <=> last.n <= treeIs.n)
  /\ VerifiedAroundExtra => last = older[2]

\* generate(dir, 1) on an absent dir, verify(dir, 2) false, the last file of
\* dir_1 added from outside, and verify(dir, 1) true with the extra entries
\* in place.
C29_Witness ==
  /\ treeIs = [is |-> "generated", n |-> 1, via |-> "generate"]
  /\ last.op = "verify" /\ last.n = 1 /\ last.ok
  /\ Len(older) = 2
  /\ older[1].op = "extra" /\ older[1].path = PathAt(2 * FilesPerGb - 1)
  /\ older[2].op = "verify" /\ older[2].n = 2 /\ ~older[2].ok
  /\ "extra_dir" \in fs.other

(***************************************************************************)
(* getFileSeed over a hierarchy of any size run() accepts: the seeds of the  *)
(* paths in traversal order, collected one level-2 directory at a time.    *)
(***************************************************************************)
MAX_SIZE_GB == 10

\* The int32 a number produced by "^" stands for.
Int32Value(x) == (IF x[1] < 0 THEN x[2] - W16 ELSE x[2]) * W16 + x[3]

SeedInit == walkGb \in 1..MAX_SIZE_GB /\ walk = 0 /\ seen = {}

\* The loops over l3 and f for the next l1, l2 of the traversal:
\* const seed = getFileSeed(l1, l2, l3, f)
DeriveSeeds ==
  /\ walk < walkGb * FilesPerGb
  /\ seen' = seen \cup
       {Int32Value(getFileSeed(PathAt(walk)[1], PathAt(walk)[2], l3, f)) :
          l3 \in 0..(LEVEL_3_DIRS - 1), f \in 0..(FILES_PER_LEAF - 1)}
  /\ walk' = walk + LEVEL_3_DIRS * FILES_PER_LEAF
  /\ UNCHANGED walkGb
  /\ UNCHANGED <<engineVars, chunkVars, fsVars, handleVars, workVars, runVars, raceVars>>

\* C7: for every n <= 10, the tuples (l1, l2, l3, fileIndex) with l1 < n,
\* l2 < 10, l3 < 10, fileIndex < 5 get pairwise distinct seeds: the tuples
\* visited so far have as many different seeds as there are tuples.
C7_SeedsDistinct == Cardinality(seen) = walk

\* All 5000 tuples of n = 10 have been visited.
C7_Witness ==
  /\ walkGb = MAX_SIZE_GB
  /\ walk = MAX_SIZE_GB * LEVEL_2_DIRS * LEVEL_3_DIRS * FILES_PER_LEAF
  /\ Cardinality(seen) = 5000

\* The positions of the paths whose seeds were derived last.
DerivedLast ==
  IF walk = 0 THEN {} ELSE (walk - LEVEL_3_DIRS * FILES_PER_LEAF)..(walk - 1)

\* The seed derived for the path at position i, as the number getFileSeed
\* returns.
SeedAt(i) ==
  Int32Value(getFileSeed(PathAt(i)[1], PathAt(i)[2], PathAt(i)[3], PathAt(i)[4]))

\* C19 as claimed: for every l1, l2, l3 in [0,10) and fileNum in [0,5),
\* getFileSeed returns a value in 0..2^32-1, equal to 0xDEADBEEF XOR (l1<<24)
\* XOR (l2<<16) XOR (l3<<8) XOR fileNum taken as an unsigned 32-bit number
\* (whose upper and lower 16 bits UnsignedSeed gives).
C19_SeedIsUint32 ==
  \A i \in DerivedLast :
    /\ SeedAt(i) \in seen
    /\ SeedAt(i) >= 0
    /\ SeedAt(i) \div W16 = UnsignedSeed(PathAt(i))[2]
    /\ SeedAt(i) % W16 = UnsignedSeed(PathAt(i))[3]

\* C19 amended: for every l1, l2, l3 in [0,10) and fileNum in [0,5),
\* getFileSeed returns a negative 32-bit signed integer: the unsigned 32-bit
\* number 0xDEADBEEF XOR (l1<<24) XOR (l2<<16) XOR (l3<<8) XOR fileNum minus
\* 2^32, which has the same 32 bits.
C19_SeedIsInt32 ==
  \A i \in DerivedLast :
    /\ SeedAt(i) \in seen
    /\ SeedAt(i) < 0
    /\ (SeedAt(i) \div W16) + W16 = UnsignedSeed(PathAt(i))[2]
    /\ SeedAt(i) % W16 = UnsignedSeed(PathAt(i))[3]

\* The seeds of dir_9/sub_9 have been derived; that of
\* dir_9/sub_9/leaf_9/data_4.bin is 0xD7A4B7EB - 2^32 = -677070869.
C19_Witness ==
  /\ walk = MAX_SIZE_GB * FilesPerGb
  /\ SeedAt(walk - 1) = -677070869
  /\ -677070869 \in seen

\* The largest sizeGb of the hierarchies whose seeds are derived without
\* regard to what run() accepts.
WideGb == 257

WideInit == walkGb = WideGb /\ walk = 0 /\ seen = {}

\* The loops over l3 and f for the next l1, l2 of the traversal; only the
\* seeds of this level-2 directory are kept.
DeriveWideSeeds ==
  /\ walk < walkGb * FilesPerGb
  /\ seen' = {Int32Value(getFileSeed(PathAt(walk)[1], PathAt(walk)[2], l3, f)) :
                l3 \in 0..(LEVEL_3_DIRS - 1), f \in 0..(FILES_PER_LEAF - 1)}
  /\ walk' = walk + LEVEL_3_DIRS * FILES_PER_LEAF
  /\ UNCHANGED walkGb
  /\ UNCHANGED <<engineVars, chunkVars, fsVars, handleVars, workVars, runVars, raceVars>>

\* The four bytes of seed XOR 0xDEADBEEF, highest first.
SeedFields(seed) ==
  LET x == BitXor(seed, MASTER_SEED)
  IN  <<x[2] \div 256, x[2] % 256, x[3] \div 256, x[3] % 256>>

\* C28: the 32 bits of getFileSeed(l1, l2, l3, f) hold l1 modulo 256, l2, l3
\* and f in their four bytes (XORed with 0xDEADBEEF), for l2, l3 < 10 and
\* f < 5: so the seed determines the tuple when l1 < 256, the tuples with l1
\* and l1 + 256 get the same seed, and the byte of l2 holds no bit of l1.
C28_SeedHoldsFields ==
  \A i \in DerivedLast :
    /\ SeedAt(i) \in seen
    /\ SeedFields(getFileSeed(PathAt(i)[1], PathAt(i)[2], PathAt(i)[3], PathAt(i)[4]))
         = <<PathAt(i)[1] % 256, PathAt(i)[2], PathAt(i)[3], PathAt(i)[4]>>
    /\ PathAt(i)[1] >= 256 => SeedAt(i) = SeedAt(i - 256 * FilesPerGb)

\* The seeds of dir_256/sub_9 have been derived: that of
\* dir_256/sub_9/leaf_9/data_4.bin is the seed of dir_0/sub_9/leaf_9/data_4.bin.
C28_Witness ==
  /\ walk = 257 * FilesPerGb
  /\ PathAt(walk - 1) = <<256, 9, 9, 4>>
  /\ SeedAt(walk - 1) \in seen
  /\ SeedAt(walk - 1) = SeedAt(FilesPerGb - 1)

(***************************************************************************)
(* generateFileHierarchy(baseDir, genGb) followed call by call: the         *)
(* directories and files it makes one after the other, every fs call       *)
(* either returning or throwing.  fds holds the positions of the files     *)
(* whose descriptor is open.                                               *)
(***************************************************************************)
\* The largest sizeGb of the call followed step by step.
HandleGb == 1

HandleInit ==
  /\ genGb \in 0..HandleGb
  /\ pc = "start"
  /\ fileNo = 0
  /\ wrote = 0
  /\ fds = {}
  /\ thrown = FALSE
  /\ made = 0
  /\ full = 0
  /\ errors = 0

\* An exception in the try block that goes straight to the caller.
AfterFailureNoFinally == "threw"

\* try { ... } finally { fs.closeSync(fd) }: where an exception thrown by
\* fillBuffer or writeSync takes the call.
AfterFailure == "finally"

\* An openSync that fails is passed over and the loops go on with the next
\* file.
AfterOpenFailureSkip == "counted"

\* const fd = fs.openSync(filePath, 'w') stands before the try block: what it
\* throws rejects writeRandomFile, and the await in the loops rethrows it.
AfterOpenFailure == "threw"

\* Where the loops go after file i has been written.
AfterFile(i, totalFiles) ==
  IF i + 1 >= totalFiles THEN "returned"
  ELSE IF (i + 1) % FILES_PER_LEAF = 0 THEN "leaf" ELSE "open"

\* fs.mkdirSync(baseDir, { recursive: true })
MkdirBase ==
  /\ pc = "start"
  /\ \/ pc' = (IF genGb * FilesPerGb = 0 THEN "returned" ELSE "leaf") /\ UNCHANGED errors
     \/ pc' = "threw" /\ errors' = errors + 1
  /\ UNCHANGED <<genGb, fileNo, wrote, fds, thrown, made, full>>
  /\ UNCHANGED <<engineVars, chunkVars, fsVars, seedVars, workVars, runVars, raceVars>>

\* fs.mkdirSync(l3Dir, { recursive: true })
MkdirLeaf ==
  /\ pc = "leaf"
  /\ \/ pc' = "open" /\ UNCHANGED errors
     \/ pc' = "threw" /\ errors' = errors + 1
  /\ UNCHANGED <<genGb, fileNo, wrote, fds, thrown, made, full>>
  /\ UNCHANGED <<engineVars, chunkVars, fsVars, seedVars, workVars, runVars, raceVars>>

\* const fd = fs.openSync(filePath, 'w'); let bytesWritten = 0
OpenFile ==
  /\ pc = "open"
  /\ \/ /\ pc' = "chunk" /\ fds' = fds \cup {fileNo} /\ wrote' = 0
        /\ made' = made + 1
        /\ UNCHANGED errors
     \/ /\ pc' = AfterOpenFailure
        /\ errors' = errors + 1
        /\ UNCHANGED <<fds, wrote, made>>
  /\ UNCHANGED <<genGb, fileNo, thrown, full>>
  /\ UNCHANGED <<engineVars, chunkVars, fsVars, seedVars, workVars, runVars, raceVars>>

\* One turn of the while loop: fillBuffer and writeSync, either of which may
\* throw.
WriteChunk ==
  /\ pc = "chunk"
  /\ wrote < FILE_SIZE_BYTES
  /\ \/ /\ wrote' = wrote + Min(WRITE_CHUNK_SIZE, FILE_SIZE_BYTES - wrote)
        /\ full' = IF wrote' >= FILE_SIZE_BYTES THEN full + 1 ELSE full
        /\ UNCHANGED <<pc, thrown, errors>>
     \/ /\ pc' = AfterFailure
        /\ thrown' = TRUE
        /\ errors' = errors + 1
        /\ UNCHANGED <<wrote, full>>
  /\ UNCHANGED <<genGb, fileNo, fds, made>>
  /\ UNCHANGED <<engineVars, chunkVars, fsVars, seedVars, workVars, runVars, raceVars>>

\* The while loop ends: bytesWritten >= size.
LeaveLoop ==
  /\ pc = "chunk"
  /\ wrote >= FILE_SIZE_BYTES
  /\ pc' = "finally"
  /\ UNCHANGED <<genGb, fileNo, wrote, fds, thrown, made, full, errors>>
  /\ UNCHANGED <<engineVars, chunkVars, fsVars, seedVars, workVars, runVars, raceVars>>

\* finally { fs.closeSync(fd) }: the descriptor is released; the call goes on
\* with filesCreated++ unless an exception is pending or closeSync throws.
CloseFile ==
  /\ pc = "finally"
  /\ fds' = fds \ {fileNo}
  /\ \/ pc' = (IF thrown THEN "threw" ELSE "counted") /\ UNCHANGED errors
     \/ pc' = "threw" /\ errors' = errors + 1
  /\ UNCHANGED <<genGb, fileNo, wrote, thrown, made, full>>
  /\ UNCHANGED <<engineVars, chunkVars, fsVars, seedVars, workVars, runVars, raceVars>>

\* filesCreated++ and the loop heads
NextFile ==
  /\ pc = "counted"
  /\ pc' = AfterFile(fileNo, genGb * FilesPerGb)
  /\ fileNo' = fileNo + 1
  /\ UNCHANGED <<genGb, wrote, fds, thrown, made, full, errors>>
  /\ UNCHANGED <<engineVars, chunkVars, fsVars, seedVars, workVars, runVars, raceVars>>

\* C15: during generate at most one file handle is open at any time; none is
\* open when a file is about to be opened, so each file's handle is closed
\* before the next file is opened; and none is open once generate has
\* returned or thrown, also when a fill or a write of a file failed.
C15_OneHandle ==
  /\ Cardinality(fds) <= 1
  /\ pc \in {"leaf", "open", "counted"} => fds = {}
  /\ pc \in {"returned", "threw"} => fds = {}

\* generate threw because a write of the second file failed after one chunk;
\* no handle is open.
C15_Witness ==
  /\ pc = "threw" /\ thrown
  /\ fileNo = 1 /\ wrote = WRITE_CHUNK_SIZE
  /\ fds = {}

\* C22: a failing mkdirSync, openSync, fillBuffer/writeSync or closeSync of
\* generate goes to the caller: after the first failing call the loops are
\* never re-entered (only the pending closeSync of the finally block still
\* runs), so the call is not tried again and generate ends by throwing; no
\* file after the one at hand has been created or written; and the files
\* before it are all in place, fully written.  Without a failing call
\* generate does not throw.
C22_FailurePropagates ==
  /\ errors > 0 => pc \in {"finally", "threw"}
  /\ (errors > 0 /\ pc = "finally") => (thrown /\ errors = 1 /\ fds = {fileNo})
  /\ pc = "threw" => errors \in 1..2
  /\ errors = 2 => thrown
  /\ made \in {fileNo, fileNo + 1}
  /\ full \in {fileNo, fileNo + 1}
  /\ full <= made
  /\ (made = fileNo + 1 /\ full = fileNo) => wrote < FILE_SIZE_BYTES
  /\ full = fileNo + 1 => wrote = FILE_SIZE_BYTES
  /\ made <= genGb * FilesPerGb

\* generate threw because openSync failed for the third file: the two files
\* before it are complete, and the third was not created.
C22_Witness ==
  /\ pc = "threw" /\ errors = 1 /\ ~thrown
  /\ fileNo = 2 /\ made = 2 /\ full = 2

(***************************************************************************)
(* The calls writeRandomFile(filePath, getFileSeed(...), size) of the      *)
(* first files of the traversal, made in any order by workers that run     *)
(* side by side: a worker takes a file nobody has taken, constructs its    *)
(* engine, opens the file with 'w', runs the loop one chunk at a time and  *)
(* closes the file.                                                        *)
(***************************************************************************)
\* Number of files, number of workers, size of each file and chunk size.
WorkFiles == 3
Workers == 2
WorkSize == 6
WorkChunk == 4

\* A worker between two files: no file, no open descriptor, no engine.
Idle == [pos |-> -1, wrote |-> 0, open |-> FALSE, rng |-> Num(0)]

WorkInit ==
  /\ todo = 0..(WorkFiles - 1)
  /\ work = [w \in 1..Workers |-> Idle]
  /\ disk = [p \in 0..(WorkFiles - 1) |-> [exists |-> FALSE, bytes |-> <<>>]]

\* One engine that all workers draw from.
EngineShared(w) == 1

\* const rng = new SeededRandom(seed) inside writeRandomFile: the engine
\* belongs to the call that constructed it.
EngineOf(w) == w

\* A worker calls writeRandomFile for a file nobody has taken:
\* new SeededRandom(seed); fs.openSync(filePath, 'w'); bytesWritten = 0
TakeFile ==
  \E w \in 1..Workers : \E p \in todo :
    /\ work[w].pos = -1
    /\ todo' = todo \ {p}
    /\ work' = [work EXCEPT
                  ![w] = [pos |-> p, wrote |-> 0, open |-> TRUE, rng |-> work[w].rng],
                  ![EngineOf(w)].rng =
                     SeededRandom(getFileSeed(PathAt(p)[1], PathAt(p)[2],
                                              PathAt(p)[3], PathAt(p)[4]))]
    /\ disk' = [disk EXCEPT ![p] = [exists |-> TRUE, bytes |-> <<>>]]
    /\ UNCHANGED <<engineVars, chunkVars, fsVars, seedVars, handleVars, runVars, raceVars>>

\* One turn of the worker's while loop: rng.fillBuffer(writeBuffer);
\* fs.writeSync(fd, writeBuffer); bytesWritten += bytesToWrite
WorkerWrite ==
  \E w \in 1..Workers :
    /\ work[w].pos # -1
    /\ work[w].wrote < WorkSize
    /\ \E r \in {fillBuffer(work[EngineOf(w)].rng,
                            Min(WorkChunk, WorkSize - work[w].wrote))} :
         /\ work' = [work EXCEPT
                       ![EngineOf(w)].rng = r.state,
                       ![w].wrote = @ + Min(WorkChunk, WorkSize - work[w].wrote)]
         /\ disk' = [disk EXCEPT ![work[w].pos].bytes = @ \o r.buffer]
    /\ UNCHANGED todo
    /\ UNCHANGED <<engineVars, chunkVars, fsVars, seedVars, handleVars, runVars, raceVars>>

\* The worker's loop ends and fs.closeSync(fd) runs; the engine is dropped.
WorkerClose ==
  \E w \in 1..Workers :
    /\ work[w].pos # -1
    /\ work[w].wrote >= WorkSize
    /\ work' = [work EXCEPT ![w] = Idle]
    /\ UNCHANGED <<todo, disk>>
    /\ UNCHANGED <<engineVars, chunkVars, fsVars, seedVars, handleVars, runVars, raceVars>>

\* The file at position p has been written and closed.
Finished(p) == p \notin todo /\ \A w \in 1..Workers : work[w].pos # p

\* What the sequential traversal writes to the file at position p.
SequentialFile(p) ==
  writeRandomFileBytes(getFileSeed(PathAt(p)[1], PathAt(p)[2], PathAt(p)[3], PathAt(p)[4]),
                       WorkSize, WorkChunk)

\* C20: in whatever order the files are taken, and however the workers'
\* steps interleave, every file that has been written and closed holds the
\* bytes the sequential traversal writes to it; so when all files are done
\* the tree is the one the sequential ascending traversal leaves.
C20_OrderIndependent ==
  \A p \in 0..(WorkFiles - 1) :
    Finished(p) => disk[p] = [exists |-> TRUE, bytes |-> SequentialFile(p)]

\* The last file was written first and is complete while a second worker is
\* one chunk into the second file and nobody has taken the first file.
C20_Witness ==
  /\ todo = {0}
  /\ Finished(WorkFiles - 1)
  /\ Len(disk[WorkFiles - 1].bytes) = WorkSize
  /\ \E w \in 1..Workers : work[w].pos = 1 /\ work[w].wrote = WorkChunk

(***************************************************************************)
(* run() of src/src/index.ts followed call by call: the inputs are read    *)
(* and checked, RUNNER_TEMP is overridden in tmpfs mode, and the five      *)
(* steps are awaited one after the other, the two cache steps through      *)
(* their retry helpers.  Every call run() makes either returns or throws;  *)
(* what is thrown inside run() is caught at its end and passed to          *)
(* core.setFailed.  A string is the sequence of its characters; a number   *)
(* is [nan |-> FALSE, v |-> its value] or NaN.                             *)
(***************************************************************************)
SAVE_RETRY_ATTEMPTS == 3
RESTORE_RETRY_ATTEMPTS == 6
RETRY_BASE_DELAY_MS == 5000

NaN == [nan |-> TRUE, v |-> 0]
Number(v) == [nan |-> FALSE, v |-> v]

\* a < b and a > b of JavaScript numbers: false when either side is NaN.
Less(a, b) == ~a.nan /\ ~b.nan /\ a.v < b.v
Greater(a, b) == ~a.nan /\ ~b.nan /\ a.v > b.v

DigitValue ==
  [c \in {"0", "1", "2", "3", "4", "5", "6", "7", "8", "9"} |->
     CASE c = "0" -> 0 [] c = "1" -> 1 [] c = "2" -> 2 [] c = "3" -> 3 [] c = "4" -> 4
       [] c = "5" -> 5 [] c = "6" -> 6 [] c = "7" -> 7 [] c = "8" -> 8 [] c = "9" -> 9]

RECURSIVE StripLeft(_)
StripLeft(str) ==
  IF str # <<>> /\ str[1] = " " THEN StripLeft(Tail(str)) ELSE str

RECURSIVE StripRight(_)
StripRight(str) ==
  IF str # <<>> /\ str[Len(str)] = " " THEN StripRight(SubSeq(str, 1, Len(str) - 1)) ELSE str

\* The longest prefix of decimal digits.
RECURSIVE DigitPrefix(_)
DigitPrefix(str) ==
  IF str # <<>> /\ str[1] \in DOMAIN DigitValue
  THEN <<str[1]>> \o DigitPrefix(Tail(str))
  ELSE <<>>

RECURSIVE DecimalValue(_)
DecimalValue(digits) ==
  IF digits = <<>> THEN 0
  ELSE 10 * DecimalValue(SubSeq(digits, 1, Len(digits) - 1)) + DigitValue[digits[Len(digits)]]

\* parseInt(str, 10): leading white space is skipped, a sign is taken, then
\* the longest run of decimal digits; what follows them is ignored, and the
\* result is NaN when there is no digit.
parseInt(str) ==
  LET t      == StripLeft(str)
      signed == t # <<>> /\ t[1] \in {"+", "-"}
      digits == DigitPrefix(IF signed THEN Tail(t) ELSE t)
  IN  IF digits = <<>> THEN NaN
      ELSE IF signed /\ t[1] = "-" THEN Number(0 - DecimalValue(digits))
      ELSE Number(DecimalValue(digits))

\* core.getInput(name): the input without surrounding white space, '' when
\* it is not set.
getInput(raw) == StripRight(StripLeft(raw))

\* parseInt(core.getInput('size-gb') || '8', 10)
ReadSizeGb(raw) ==
  parseInt(IF getInput(raw) = <<>> THEN <<"8">> ELSE getInput(raw))

\* if (sizeGb < 1 || sizeGb > 10)
SizeRejected(n) == Less(n, Number(1)) \/ Greater(n, Number(MAX_SIZE_GB))

\* The values of the size-gb input run() is called with.
SizeInputs ==
  { <<>>, <<" ">>, <<"1">>, <<"1", "0">>, <<"0">>, <<"1", "1">>, <<"-", "3">>,
    <<"a", "b", "c">>, <<"5", "a", "b", "c">>, <<"1", ".", "5">> }

Call(name, out, ms) == [call |-> name, out |-> out, ms |-> ms]

RunInit ==
  /\ sizeInput \in SizeInputs
  /\ useTmpfs \in BOOLEAN
  /\ RUNNER_TEMP \in {"undefined", "/home/runner/work/_temp"}
  /\ firstTemp = RUNNER_TEMP
  /\ originalRunnerTemp = "undefined"
  /\ runPc = "start"
  /\ runGb = NaN
  /\ attempt = 0
  /\ lastError = ""
  /\ calls = <<>>
  /\ failedWith = ""

\* catch (error) { core.setFailed(error.message) } at the end of run()
Caught(message) ==
  /\ runPc' = "failed"
  /\ failedWith' = message

\* The inputs are read and size-gb is checked.
ReadInputs ==
  /\ runPc = "start"
  /\ runGb' = ReadSizeGb(sizeInput)
  /\ IF SizeRejected(runGb')
     THEN Caught("size-gb must be between 1 and 10")
     ELSE /\ runPc' = IF useTmpfs THEN "tmpfs" ELSE "generate"
          /\ UNCHANGED failedWith
  /\ UNCHANGED <<sizeInput, useTmpfs, RUNNER_TEMP, firstTemp, originalRunnerTemp,
                 attempt, lastError, calls>>
  /\ UNCHANGED <<engineVars, chunkVars, fsVars, seedVars, handleVars, workVars, raceVars>>

\* if (useTmpfs) { ... }: findTmpfsLocation and the two mkdirSync calls may
\* throw; after them RUNNER_TEMP is saved and overridden.
EnterTmpfs ==
  /\ runPc = "tmpfs"
  /\ \/ /\ Caught("No tmpfs location found")
        /\ UNCHANGED <<RUNNER_TEMP, originalRunnerTemp>>
     \/ /\ Caught("mkdirSync failed")
        /\ UNCHANGED <<RUNNER_TEMP, originalRunnerTemp>>
     \/ /\ originalRunnerTemp' = RUNNER_TEMP
        /\ RUNNER_TEMP' = "/dev/shm/runner-temp"
        /\ runPc' = "generate"
        /\ UNCHANGED failedWith
  /\ UNCHANGED <<sizeInput, useTmpfs, firstTemp, runGb, attempt, lastError, calls>>
  /\ UNCHANGED <<engineVars, chunkVars, fsVars, seedVars, handleVars, workVars, raceVars>>

\* Step 1: await generateFileHierarchy(filesPath, sizeGb)
StepGenerate ==
  /\ runPc = "generate"
  /\ \/ /\ calls' = Append(calls, Call("generateFileHierarchy", "returned", 0))
        /\ runPc' = "save"
        /\ attempt' = 1
        /\ lastError' = ""
        /\ UNCHANGED failedWith
     \/ /\ calls' = Append(calls, Call("generateFileHierarchy", "threw", 0))
        /\ Caught("generateFileHierarchy failed")
        /\ UNCHANGED <<attempt, lastError>>
  /\ UNCHANGED <<sizeInput, useTmpfs, RUNNER_TEMP, firstTemp, originalRunnerTemp, runGb>>
  /\ UNCHANGED <<engineVars, chunkVars, fsVars, seedVars, handleVars, workVars, raceVars>>

\* A save that answered -1 is taken for a saved cache.
SaveFailedNever(cacheId) == FALSE

\* if (cacheId === -1) throw new Error('Cache save returned -1 ...')
SaveFailed(cacheId) == cacheId = -1

\* if (attempt < ATTEMPTS) { ...; await sleep(delay) }
SleepsAfter(n, attempts) == n < attempts

\* The same delay before every attempt.
RetryDelayFlat(n) == RETRY_BASE_DELAY_MS

\* const delay = RETRY_BASE_DELAY_MS * attempt
RetryDelay(n) == RETRY_BASE_DELAY_MS * n

\* What a failed attempt of a retry helper does next: it sleeps before the
\* next attempt, or leaves the loop and throws lastError.
AfterFailedAttempt(attempts, sleeping) ==
  IF SleepsAfter(attempt, attempts)
  THEN /\ runPc' = sleeping
       /\ UNCHANGED <<attempt, failedWith>>
  ELSE /\ attempt' = attempt + 1
       /\ Caught(lastError')

\* Step 2, one turn of the loop of saveCacheWithRetry: cache.saveCache
\* answers a cache id or -1, or throws.
SaveAttempt ==
  /\ runPc = "save"
  /\ attempt <= SAVE_RETRY_ATTEMPTS
  /\ \/ \E cacheId \in {-1, 7} :
          IF SaveFailed(cacheId)
          THEN /\ calls' = Append(calls, Call("saveCache", "-1", 0))
               /\ lastError' = "Cache save returned -1 (cache not saved)"
               /\ AfterFailedAttempt(SAVE_RETRY_ATTEMPTS, "saveSleep")
          ELSE /\ calls' = Append(calls, Call("saveCache", IF cacheId = -1 THEN "-1" ELSE "id", 0))
               /\ runPc' = "delete"
               /\ UNCHANGED <<attempt, lastError, failedWith>>
     \/ /\ calls' = Append(calls, Call("saveCache", "threw", 0))
        /\ lastError' = "saveCache failed"
        /\ AfterFailedAttempt(SAVE_RETRY_ATTEMPTS, "saveSleep")
  /\ UNCHANGED <<sizeInput, useTmpfs, RUNNER_TEMP, firstTemp, originalRunnerTemp, runGb>>
  /\ UNCHANGED <<engineVars, chunkVars, fsVars, seedVars, handleVars, workVars, raceVars>>

\* await sleep(delay) in saveCacheWithRetry, and attempt++
SaveSleep ==
  /\ runPc = "saveSleep"
  /\ calls' = Append(calls, Call("sleep", "returned", RetryDelay(attempt)))
  /\ attempt' = attempt + 1
  /\ runPc' = "save"
  /\ UNCHANGED <<sizeInput, useTmpfs, RUNNER_TEMP, firstTemp, originalRunnerTemp, runGb,
                 lastError, failedWith>>
  /\ UNCHANGED <<engineVars, chunkVars, fsVars, seedVars, handleVars, workVars, raceVars>>

\* Step 3: await deleteFileHierarchy(filesPath)
StepDelete ==
  /\ runPc = "delete"
  /\ \/ /\ calls' = Append(calls, Call("deleteFileHierarchy", "returned", 0))
        /\ runPc' = "restore"
        /\ attempt' = 1
        /\ lastError' = ""
        /\ UNCHANGED failedWith
     \/ /\ calls' = Append(calls, Call("deleteFileHierarchy", "threw", 0))
        /\ Caught("deleteFileHierarchy failed")
        /\ UNCHANGED <<attempt, lastError>>
  /\ UNCHANGED <<sizeInput, useTmpfs, RUNNER_TEMP, firstTemp, originalRunnerTemp, runGb>>
  /\ UNCHANGED <<engineVars, chunkVars, fsVars, seedVars, handleVars, workVars, raceVars>>

\* Step 4, one turn of the loop of restoreCacheWithRetry: cache.restoreCache
\* answers the key or undefined, or throws.
RestoreAttempt ==
  /\ runPc = "restore"
  /\ attempt <= RESTORE_RETRY_ATTEMPTS
  /\ \/ /\ calls' = Append(calls, Call("restoreCache", "key", 0))
        /\ runPc' = "verify"
        /\ UNCHANGED <<attempt, lastError, failedWith>>
     \/ /\ calls' = Append(calls, Call("restoreCache", "undefined", 0))
        /\ lastError' = "Cache restore returned undefined"
        /\ AfterFailedAttempt(RESTORE_RETRY_ATTEMPTS, "restoreSleep")
     \/ /\ calls' = Append(calls, Call("restoreCache", "threw", 0))
        /\ lastError' = "restoreCache failed"
        /\ AfterFailedAttempt(RESTORE_RETRY_ATTEMPTS, "restoreSleep")
  /\ UNCHANGED <<sizeInput, useTmpfs, RUNNER_TEMP, firstTemp, originalRunnerTemp, runGb>>
  /\ UNCHANGED <<engineVars, chunkVars, fsVars, seedVars, handleVars, workVars, raceVars>>

\* await sleep(delay) in restoreCacheWithRetry, and attempt++
RestoreSleep ==
  /\ runPc = "restoreSleep"
  /\ calls' = Append(calls, Call("sleep", "returned", RetryDelay(attempt)))
  /\ attempt' = attempt + 1
  /\ runPc' = "restore"
  /\ UNCHANGED <<sizeInput, useTmpfs, RUNNER_TEMP, firstTemp, originalRunnerTemp, runGb,
                 lastError, failedWith>>
  /\ UNCHANGED <<engineVars, chunkVars, fsVars, seedVars, handleVars, workVars, raceVars>>

\* Step 5: await verifyFileHierarchy(filesPath, sizeGb); if (!verified) throw
StepVerify ==
  /\ runPc = "verify"
  /\ \/ /\ calls' = Append(calls, Call("verifyFileHierarchy", "true", 0))
        /\ runPc' = "summary"
        /\ UNCHANGED failedWith
     \/ /\ calls' = Append(calls, Call("verifyFileHierarchy", "false", 0))
        /\ Caught("Verification failed - restored data does not match expected structure")
     \/ /\ calls' = Append(calls, Call("verifyFileHierarchy", "threw", 0))
        /\ Caught("verifyFileHierarchy failed")
  /\ UNCHANGED <<sizeInput, useTmpfs, RUNNER_TEMP, firstTemp, originalRunnerTemp, runGb,
                 attempt, lastError>>
  /\ UNCHANGED <<engineVars, chunkVars, fsVars, seedVars, handleVars, workVars, raceVars>>

\* if (useTmpfs && originalRunnerTemp !== undefined)
Cleanup == useTmpfs /\ originalRunnerTemp # "undefined"

\* The summary, the outputs and the cleanup that end the try block.
Summary ==
  /\ runPc = "summary"
  /\ RUNNER_TEMP' = IF Cleanup THEN originalRunnerTemp ELSE RUNNER_TEMP
  /\ runPc' = "done"
  /\ UNCHANGED <<sizeInput, useTmpfs, firstTemp, originalRunnerTemp, runGb,
                 attempt, lastError, calls, failedWith>>
  /\ UNCHANGED <<engineVars, chunkVars, fsVars, seedVars, handleVars, workVars, raceVars>>

RunNext ==
  \/ ReadInputs \/ EnterTmpfs \/ StepGenerate \/ SaveAttempt \/ SaveSleep
  \/ StepDelete \/ RestoreAttempt \/ RestoreSleep \/ StepVerify \/ Summary

\* The calls of the five steps, in the order run() made them.
StepCalls == SelectSeq(calls, LAMBDA c : c.call # "sleep")

Rank(name) ==
  CASE name = "generateFileHierarchy" -> 1
    [] name = "saveCache" -> 2
    [] name = "deleteFileHierarchy" -> 3
    [] name = "restoreCache" -> 4
    [] name = "verifyFileHierarchy" -> 5

Succeeded(c) == c.out \in {"returned", "id", "key", "true"}

\* C23: run() calls the steps in the order generate, cache save, delete,
\* cache restore, verify, a step only after the one before it succeeded (a
\* cache step being called again only after a failed attempt of its own):
\* delete only after a save that returned a cache id, verify only after a
\* restore that returned a key; when a step has failed for good no later step
\* has run and setFailed has been called, and setFailed is called in no other
\* case; run() ends normally only after all five steps succeeded.
C23_StepsInOrder ==
  /\ StepCalls # <<>> => StepCalls[1].call = "generateFileHierarchy"
  /\ \A i \in 1..(Len(StepCalls) - 1) :
       \/ /\ Rank(StepCalls[i + 1].call) = Rank(StepCalls[i].call) + 1
          /\ Succeeded(StepCalls[i])
       \/ /\ StepCalls[i + 1].call = StepCalls[i].call
          /\ StepCalls[i].call \in {"saveCache", "restoreCache"}
          /\ ~Succeeded(StepCalls[i])
  /\ \A i \in 2..Len(StepCalls) :
       /\ StepCalls[i].call = "deleteFileHierarchy" => StepCalls[i - 1] = Call("saveCache", "id", 0)
       /\ StepCalls[i].call = "verifyFileHierarchy" => StepCalls[i - 1] = Call("restoreCache", "key", 0)
  /\ (StepCalls # <<>> /\ ~Succeeded(StepCalls[Len(StepCalls)])) =>
       \/ runPc = "failed"
       \/ runPc \in {"save", "saveSleep"} /\ StepCalls[Len(StepCalls)].call = "saveCache"
       \/ runPc \in {"restore", "restoreSleep"} /\ StepCalls[Len(StepCalls)].call = "restoreCache"
  /\ runPc = "failed" <=> failedWith # ""
  /\ (runPc = "failed" /\ StepCalls # <<>>) => ~Succeeded(StepCalls[Len(StepCalls)])
  /\ runPc \in {"summary", "done"} =>
       /\ Len(StepCalls) >= 5
       /\ StepCalls[Len(StepCalls)] = Call("verifyFileHierarchy", "true", 0)

\* The restore failed six times after generate, save and delete succeeded:
\* verify was not called and the run is marked failed.
C23_Witness ==
  /\ runPc = "failed"
  /\ failedWith = "Cache restore returned undefined"
  /\ Len(StepCalls) = 3 + RESTORE_RETRY_ATTEMPTS
  /\ StepCalls[3] = Call("deleteFileHierarchy", "returned", 0)
  /\ StepCalls[Len(StepCalls)] = Call("restoreCache", "undefined", 0)

\* The number of calls of the given name among the first i calls.
CallNo(i) == Cardinality({j \in 1..i : calls[j].call = calls[i].call})

ErrorOf(c) ==
  CASE c.out = "-1" -> "Cache save returned -1 (cache not saved)"
    [] c.out = "undefined" -> "Cache restore returned undefined"
    [] c.out = "threw" /\ c.call = "saveCache" -> "saveCache failed"
    [] c.out = "threw" /\ c.call = "restoreCache" -> "restoreCache failed"

Attempts(name) == IF name = "saveCache" THEN SAVE_RETRY_ATTEMPTS ELSE RESTORE_RETRY_ATTEMPTS

\* What the calls made so far show of the two retry helpers.
RetryContract ==
  \A i \in 1..Len(calls) :
    LET c == calls[i]
    IN  /\ c.call \in {"saveCache", "restoreCache"} =>
             /\ CallNo(i) <= Attempts(c.call)
             /\ Succeeded(c) =>
                  /\ c.out \notin {"-1", "undefined"}
                  /\ \A j \in (i + 1)..Len(calls) : calls[j].call # c.call
                  /\ i < Len(calls) => calls[i + 1].call # "sleep"
             /\ (~Succeeded(c) /\ CallNo(i) < Attempts(c.call)) =>
                  /\ i = Len(calls) => runPc = (IF c.call = "saveCache" THEN "saveSleep" ELSE "restoreSleep")
                  /\ i < Len(calls) => calls[i + 1] = Call("sleep", "returned", RETRY_BASE_DELAY_MS * CallNo(i))
                  /\ i + 1 < Len(calls) => calls[i + 2].call = c.call
             /\ (~Succeeded(c) /\ CallNo(i) = Attempts(c.call)) =>
                  /\ i = Len(calls)
                  /\ runPc = "failed"
                  /\ failedWith = ErrorOf(c)
        /\ c.call = "sleep" =>
             /\ i > 1
             /\ calls[i - 1].call \in {"saveCache", "restoreCache"}
             /\ ~Succeeded(calls[i - 1])
             /\ i = Len(calls) => runPc = (IF calls[i - 1].call = "saveCache" THEN "save" ELSE "restore")

InSave == runPc \in {"save", "saveSleep"}
InRestore == runPc \in {"restore", "restoreSleep"}

\* C24: saveCacheWithRetry calls cache.saveCache at most 3 times and
\* restoreCacheWithRetry calls cache.restoreCache at most 6 times; the first
\* attempt that succeeds ends the helper with no further attempt and no sleep;
\* a save that answers -1 and a restore that answers undefined are failed
\* attempts; after failed attempt number k that is not the last the helper
\* sleeps 5000 * k ms and then tries again, a sleep happens nowhere else, and
\* after the last failed attempt the helper throws the error of that attempt;
\* each helper, once entered, is eventually left.
C24_BoundedRetry ==
  /\ []RetryContract
  /\ InSave ~> ~InSave
  /\ InRestore ~> ~InRestore

\* The save succeeded at its third attempt, after sleeps of 5000 and 10000 ms,
\* and the restore failed for the sixth time, after five sleeps.
C24_Witness ==
  /\ runPc = "failed"
  /\ Len(calls) = 18
  /\ calls[2] = Call("saveCache", "-1", 0)
  /\ calls[3] = Call("sleep", "returned", 5000)
  /\ calls[5] = Call("sleep", "returned", 10000)
  /\ calls[6] = Call("saveCache", "id", 0)
  /\ calls[16] = Call("restoreCache", "undefined", 0)
  /\ calls[17] = Call("sleep", "returned", 25000)
  /\ calls[18] = Call("restoreCache", "threw", 0)
  /\ failedWith = "restoreCache failed"

\* The size-gb input parses to an integer between 1 and 10 (the default
\* taken when the input is empty).
ParsesInRange(raw) ==
  /\ ~ReadSizeGb(raw).nan
  /\ ReadSizeGb(raw).v >= 1
  /\ ReadSizeGb(raw).v <= MAX_SIZE_GB

\* C25: whenever the size-gb input does not parse to an integer between 1 and
\* 10, run() has failed with 'size-gb must be between 1 and 10' once it has
\* read its inputs, and has called neither generateFileHierarchy nor a cache
\* operation.
C25_BadSizeRejected ==
  (runPc # "start" /\ ~ParsesInRange(sizeInput)) =>
    /\ runPc = "failed"
    /\ failedWith = "size-gb must be between 1 and 10"
    /\ calls = <<>>

\* C26: whenever run() has ended, normally or by a failure, RUNNER_TEMP has
\* the value it had when run() was called.
C26_RunnerTempRestored ==
  runPc \in {"done", "failed"} => RUNNER_TEMP = firstTemp

(***************************************************************************)
(* verifyFileHierarchy(baseDir, raceGb) on a complete hierarchy while      *)
(* another process runs deleteFileHierarchy(baseDir): verify is followed   *)
(* one fs call at a time, the rmSync of the other process one removed file *)
(* at a time, the files going in the order of the traversal.               *)
(***************************************************************************)
\* The largest sizeGb of the verify call that runs beside a delete.
RaceGb == 1

RaceInit ==
  /\ raceGb \in 1..RaceGb
  /\ vPc = "exists"
  /\ vAt = 0
  /\ vResult = ""
  /\ gone = 0

\* Whether the file at position i is still there.
Present(i) == i >= gone

\* if (!fs.existsSync(filePath)) { core.error(...); return false; }
VerifyExists ==
  /\ vPc = "exists"
  /\ IF Present(vAt)
     THEN vPc' = "stat" /\ UNCHANGED vResult
     ELSE vPc' = "returned" /\ vResult' = "false"
  /\ UNCHANGED <<raceGb, vAt, gone>>
  /\ UNCHANGED <<engineVars, chunkVars, fsVars, seedVars, handleVars, workVars, runVars>>

\* const stats = fs.statSync(filePath), which throws when the path is gone;
\* the size check, which every file of the complete hierarchy passes; and
\* the loop heads, ending with return true.
VerifyStat ==
  /\ vPc = "stat"
  /\ IF ~Present(vAt)
     THEN vPc' = "threw" /\ UNCHANGED <<vAt, vResult>>
     ELSE IF vAt + 1 < raceGb * FilesPerGb
          THEN vPc' = "exists" /\ vAt' = vAt + 1 /\ UNCHANGED vResult
          ELSE vPc' = "returned" /\ vResult' = "true" /\ UNCHANGED vAt
  /\ UNCHANGED <<raceGb, gone>>
  /\ UNCHANGED <<engineVars, chunkVars, fsVars, seedVars, handleVars, workVars, runVars>>

\* fs.rmSync(baseDir, { recursive: true, force: true }) in the other process
\* removes its next file, while verify has not ended.
RemoveNext ==
  /\ vPc \in {"exists", "stat"}
  /\ gone < raceGb * FilesPerGb
  /\ gone' = gone + 1
  /\ UNCHANGED <<raceGb, vPc, vAt, vResult>>
  /\ UNCHANGED <<engineVars, chunkVars, fsVars, seedVars, handleVars, workVars, runVars>>

\* C30: verify running beside a delete never throws, and returns true only
\* when no file is missing at the moment it returns; in particular it returns
\* false when a file is removed between its existence check and its size
\* check.
C30_VerifyFalseUnderDelete ==
  /\ vPc # "threw"
  /\ vResult = "true" => gone = 0

RaceNext == VerifyExists \/ VerifyStat \/ RemoveNext

(***************************************************************************)
(* Specifications.                                                         *)
(***************************************************************************)
EngineRest ==
  /\ curSeed = MASTER_SEED
  /\ engA = SeededRandom(curSeed) /\ engB = SeededRandom(curSeed)
  /\ engF = SeededRandom(curSeed)
  /\ baseA = 0 /\ baseB = 0 /\ histA = <<>> /\ histB = <<>>
  /\ refA = ToUint32(curSeed) /\ refHistA = <<>>
  /\ bufF = <<>> /\ lenF = <<>>

ChunkRest ==
  wSize = 0 /\ chunkX = 0 /\ chunkY = 0 /\ fileX = <<>> /\ fileY = <<>>

FsRest ==
  /\ fs = AbsentTree /\ snap = NoSnap /\ pre = AbsentTree
  /\ last = NoOp /\ treeIs = Unknown /\ snapIs = Unknown
  /\ older = <<>> /\ keep = 0 /\ upTo = MaxGb

SeedRest == walkGb = 1 /\ walk = 0 /\ seen = {}

HandleRest ==
  /\ genGb = 0 /\ pc = "start" /\ fileNo = 0 /\ wrote = 0 /\ fds = {} /\ thrown = FALSE
  /\ made = 0 /\ full = 0 /\ errors = 0

WorkRest == todo = {} /\ work = <<>> /\ disk = <<>>

RaceRest == raceGb = 0 /\ vPc = "exists" /\ vAt = 0 /\ vResult = "" /\ gone = 0

RunRest ==
  /\ sizeInput = <<>> /\ useTmpfs = FALSE
  /\ RUNNER_TEMP = "undefined" /\ firstTemp = "undefined" /\ originalRunnerTemp = "undefined"
  /\ runPc = "start" /\ runGb = NaN /\ attempt = 0 /\ lastError = ""
  /\ calls = <<>> /\ failedWith = ""

Parked == HandleRest /\ WorkRest /\ RunRest /\ RaceRest

EngineNext == DrawA \/ DrawB \/ FillLargeA \/ FillLargeB
InitEngine == EngineInit /\ ChunkRest /\ FsRest /\ SeedRest /\ Parked
SpecEngine == InitEngine /\ [][EngineNext]_vars

FillNext == DrawB \/ FillF
SpecFill == InitEngine /\ [][FillNext]_vars

ComposeNext == FillF \/ FillAgainF
SpecCompose == InitEngine /\ [][ComposeNext]_vars

ChunkNext == WriteX \/ WriteY
InitChunk == EngineInit /\ ChunkInit /\ FsRest /\ SeedRest /\ Parked
SpecChunk == InitChunk /\ [][ChunkNext]_vars

SeedNext == DeriveSeeds
InitSeeds == EngineRest /\ ChunkRest /\ FsRest /\ SeedInit /\ Parked
SpecSeeds == InitSeeds /\ [][SeedNext]_vars

WideNext == DeriveWideSeeds
InitWideSeeds == EngineRest /\ ChunkRest /\ FsRest /\ WideInit /\ Parked
SpecWideSeeds == InitWideSeeds /\ [][WideNext]_vars

\* The hierarchy with the outcomes of the last operations remembered.
\* The largest sizeGb in the runs that remember outcomes.
KeptGb == 1

FsInitKeeping(trees, k) ==
  /\ fs \in trees
  /\ snap = NoSnap
  /\ last = NoOp
  /\ pre = fs
  /\ treeIs = Unknown
  /\ snapIs = Unknown
  /\ older = <<>>
  /\ keep = k
  /\ upTo = Min(KeptGb, MaxGb)

\* Runs of generate that end, fail or are interrupted, with verify and delete.
RecoverNext == Generate \/ Interrupt \/ Delete \/ Verify
InitRecover ==
  EngineRest /\ ChunkRest /\ FsInitKeeping({AbsentTree, UsedDir}, 1) /\ SeedRest /\ Parked
SpecRecover == InitRecover /\ [][RecoverNext]_vars

\* verify on trees whose file contents are changed behind the program's back.
CorruptNext == Generate \/ Verify \/ Corrupt
InitCorrupt ==
  EngineRest /\ ChunkRest /\ FsInitKeeping({AbsentTree, FileTree}, 2) /\ SeedRest /\ Parked
SpecCorrupt == InitCorrupt /\ [][CorruptNext]_vars

\* One generate on an absent directory, then verifies and entries added from
\* outside.
ExtrasNext == FirstGenerate \/ Verify \/ AddExtra
InitExtras ==
  /\ EngineRest /\ ChunkRest /\ SeedRest /\ Parked
  /\ fs = AbsentTree /\ snap = NoSnap /\ last = NoOp /\ pre = fs
  /\ treeIs = Unknown /\ snapIs = Unknown /\ older = <<>>
  /\ keep = 2 /\ upTo = MaxGb
SpecExtras == InitExtras /\ [][ExtrasNext]_vars

InitRace ==
  /\ EngineRest /\ ChunkRest /\ FsRest /\ SeedRest /\ HandleRest /\ WorkRest /\ RunRest
  /\ RaceInit
SpecRace == InitRace /\ [][RaceNext]_vars

HandleNext ==
  MkdirBase \/ MkdirLeaf \/ OpenFile \/ WriteChunk \/ LeaveLoop \/ CloseFile \/ NextFile
InitHandles ==
  EngineRest /\ ChunkRest /\ FsRest /\ SeedRest /\ HandleInit /\ WorkRest /\ RunRest /\ RaceRest
SpecHandles == InitHandles /\ [][HandleNext]_vars

WorkNext == TakeFile \/ WorkerWrite \/ WorkerClose
InitWorkers ==
  EngineRest /\ ChunkRest /\ FsRest /\ SeedRest /\ HandleRest /\ WorkInit /\ RunRest /\ RaceRest
SpecWorkers == InitWorkers /\ [][WorkNext]_vars

InitRun ==
  /\ EngineRest /\ ChunkRest /\ FsRest /\ SeedRest /\ HandleRest /\ WorkRest /\ RunInit
  /\ RaceRest
SpecRun == InitRun /\ [][RunNext]_vars

\* run() goes on whenever the promise it awaits has settled.
SpecRunFair == SpecRun /\ WF_vars(RunNext)

Init == EngineRest /\ ChunkRest /\ FsInit /\ SeedRest /\ Parked
Next == FsNext
Spec == Init /\ [][Next]_vars

=============================================================================
